---------------------------- MODULE Spec2Model ----------------------------
(***************************************************************************)
(* A model of the chat relay of src/server.py (ChatRoom, ChatServer) and   *)
(* of the client's wire encoders in src/client.py.                         *)
(*                                                                         *)
(* A Python str is a sequence of code points, a Python bytes object a      *)
(* sequence of numbers 0..255.  An insertion-ordered dict is a sequence of *)
(* entries with pairwise distinct keys.  ChatRoom objects live in a heap,  *)
(* a function from references to objects, so that a thread can keep hold   *)
(* of a room that is no longer in chat_rooms; an object that nothing       *)
(* refers to any more is freed.                                            *)
(*                                                                         *)
(* Threads: one handler thread per accepted TCP connection (the set        *)
(* Handlers), and the single UDP relay loop.  Every thread advances by     *)
(* steps; a step holds at most one access to shared data that another      *)
(* thread's step could change the outcome of.                              *)
(***************************************************************************)
EXTENDS Integers, Sequences, FiniteSets, TLC

(***************************************************************************)
(* Bounds of the model.                                                    *)
(***************************************************************************)
\* how many tokens uuid.uuid4() hands out in one run of the model
MaxTokens == 3

\* the handler threads that can be alive at once
Handlers == {"h1", "h2"}
FirstHandler == "h1"

\* how many connections and datagrams SpecConc takes up in one run
MaxConcOps == 3

(***************************************************************************)
(* Text constants (code points).                                           *)
(***************************************************************************)
\* "lobby", "den"
LOBBY == <<108, 111, 98, 98, 121>>
DEN == <<100, 101, 110>>
\* "alice", "bob"
ALICE == <<97, 108, 105, 99, 101>>
BOB == <<98, 111, 98>>
\* "hi"
HI == <<104, 105>>
\* "/quit" and "/QUIT"
QUIT == <<47, 113, 117, 105, 116>>
QUIT_UPPER == <<47, 81, 85, 73, 84>>

(***************************************************************************)
(* Generic helpers on sequences.                                           *)
(***************************************************************************)
Range(s) == {s[i] : i \in DOMAIN s}

\* Python slice s[a:b] with 0-based a, b >= 0: out-of-range ends are clipped
Slice(s, a, b) ==
    LET lo == IF a < Len(s) THEN a ELSE Len(s)
        hi == IF b < Len(s) THEN b ELSE Len(s)
    IN  IF hi <= lo THEN <<>> ELSE SubSeq(s, lo + 1, hi)

\* Python slice s[a:]
SliceFrom(s, a) == Slice(s, a, Len(s))

\* the value that a one-element set holds: The({F(x) : x \in {e}}) is F of
\* the value of e, which is computed once
The(S) == CHOOSE x \in S : TRUE

\* the concatenation of a sequence of sequences
RECURSIVE Flatten(_)
Flatten(ss) ==
    IF Len(ss) = 0 THEN <<>>
    ELSE IF Len(ss) = 1 THEN ss[1]
    ELSE The({Flatten(front) \o Flatten(back) :
                 front \in {SubSeq(ss, 1, Len(ss) \div 2)},
                 back \in {SubSeq(ss, (Len(ss) \div 2) + 1, Len(ss))}})

(***************************************************************************)
(* str.encode("utf-8") and bytes.decode("utf-8").                          *)
(***************************************************************************)
Utf8EncodeChar(c) ==
    IF c < 128 THEN <<c>>
    ELSE IF c < 2048 THEN <<192 + (c \div 64), 128 + (c % 64)>>
    ELSE IF c < 65536
         THEN <<224 + (c \div 4096), 128 + ((c \div 64) % 64), 128 + (c % 64)>>
    ELSE <<240 + (c \div 262144), 128 + ((c \div 4096) % 64),
           128 + ((c \div 64) % 64), 128 + (c % 64)>>

Utf8Encode(s) ==
    The({Flatten([i \in DOMAIN t |-> Utf8EncodeChar(t[i])]) : t \in {s}})

IsCont(b) == b >= 128 /\ b <= 191

\* the number of bytes of the well-formed UTF-8 sequence that starts b, 0 if none
Utf8SeqLen(b) ==
    LET b1 == b[1]
        n  == Len(b)
    IN  IF b1 < 128 THEN 1
        ELSE IF b1 >= 194 /\ b1 <= 223
             THEN IF n >= 2 /\ IsCont(b[2]) THEN 2 ELSE 0
        ELSE IF b1 >= 224 /\ b1 <= 239
             THEN IF /\ n >= 3
                     /\ IsCont(b[2]) /\ IsCont(b[3])
                     /\ (b1 = 224 => b[2] >= 160)
                     /\ (b1 = 237 => b[2] <= 159)
                  THEN 3 ELSE 0
        ELSE IF b1 >= 240 /\ b1 <= 244
             THEN IF /\ n >= 4
                     /\ IsCont(b[2]) /\ IsCont(b[3]) /\ IsCont(b[4])
                     /\ (b1 = 240 => b[2] >= 144)
                     /\ (b1 = 244 => b[2] <= 143)
                  THEN 4 ELSE 0
        ELSE 0

Utf8DecodeChar(b, k) ==
    IF k = 1 THEN b[1]
    ELSE IF k = 2 THEN (b[1] - 192) * 64 + (b[2] - 128)
    ELSE IF k = 3 THEN (b[1] - 224) * 4096 + (b[2] - 128) * 64 + (b[3] - 128)
    ELSE (b[1] - 240) * 262144 + (b[2] - 128) * 4096 + (b[3] - 128) * 64
         + (b[4] - 128)

\* [ok |-> TRUE, str |-> the text], or [ok |-> FALSE] for UnicodeDecodeError:
\* every byte that is no continuation byte starts a well-formed sequence, and
\* the sequences leave no byte between them
Utf8Decode(b) ==
    LET n == Len(b)
        IsLead(i) == ~IsCont(b[i])
        leads == SelectSeq([i \in DOMAIN b |-> i], IsLead)
        SeqAt(i) == SubSeq(b, i, IF i + 3 < n THEN i + 3 ELSE n)
        Whole(i) ==
            LET k == Utf8SeqLen(SeqAt(i))
            IN  k > 0 /\ (i + k <= n => IsLead(i + k))
    IN  IF /\ n > 0 => IsLead(1)
           /\ \A j \in DOMAIN leads : Whole(leads[j])
        THEN [ok |-> TRUE,
              str |-> [j \in DOMAIN leads |->
                          Utf8DecodeChar(SeqAt(leads[j]),
                                         Utf8SeqLen(SeqAt(leads[j])))]]
        ELSE [ok |-> FALSE, str |-> <<>>]

\* a comparison that does not fold the case
LowerAsIs(s) == s

\* str.lower() on the characters the model uses (ASCII letters fold, the
\* other characters of the model's texts have no lower-case form)
LowerChar(c) == IF c >= 65 /\ c <= 90 THEN c + 32 ELSE c
Lower(s) == [i \in DOMAIN s |-> LowerChar(s[i])]

\* int.from_bytes(b, "big")
RECURSIVE FromBytesBig(_)
FromBytesBig(b) ==
    IF b = <<>> THEN 0
    ELSE The({FromBytesBig(rest) : rest \in {SubSeq(b, 1, Len(b) - 1)}}) * 256
         + b[Len(b)]

\* n.to_bytes(k, "big"), for n < 256^k
RECURSIVE ToBytesBig(_, _)
ToBytesBig(n, k) ==
    IF k = 0 THEN <<>>
    ELSE The({ToBytesBig(m, j) : m \in {n \div 256}, j \in {k - 1}})
         \o <<n % 256>>

(***************************************************************************)
(* json.dumps and json.loads.  A JSON value is tagged: an integer, a text, *)
(* or a list of texts; a dict is the sequence of its (key, value) entries  *)
(* in insertion order.                                                     *)
(***************************************************************************)
JInt(n) == [kind |-> "int", v |-> n]
JStr(s) == [kind |-> "str", v |-> s]
JList(l) == [kind |-> "list", v |-> l]

\* the text of a dict key
KeyText(k) ==
    CASE k = "state" -> <<115, 116, 97, 116, 101>>
      [] k = "status" -> <<115, 116, 97, 116, 117, 115>>
      [] k = "token" -> <<116, 111, 107, 101, 110>>
      [] k = "user_name" -> <<117, 115, 101, 114, 95, 110, 97, 109, 101>>
      [] k = "message" -> <<109, 101, 115, 115, 97, 103, 101>>
      [] k = "udp_port" -> <<117, 100, 112, 95, 112, 111, 114, 116>>

\* "error", "success"
ERROR_TEXT == <<101, 114, 114, 111, 114>>
SUCCESS_TEXT == <<115, 117, 99, 99, 101, 115, 115>>

HexDigit(n) == IF n < 10 THEN 48 + n ELSE 87 + n

\* \uXXXX
UEscape(c) ==
    <<92, 117, HexDigit(c \div 4096), HexDigit((c \div 256) % 16),
      HexDigit((c \div 16) % 16), HexDigit(c % 16)>>

\* an encoder that writes a backslash as it is
JsonEscapeCharRaw(c) ==
    IF c = 34 THEN <<92, 34>>
    ELSE IF c >= 32 /\ c <= 126 THEN <<c>>
    ELSE UEscape(c % 65536)

\* one character inside a JSON string, as json.dumps (ensure_ascii) writes it
JsonEscapeChar(c) ==
    IF c = 34 THEN <<92, 34>>
    ELSE IF c = 92 THEN <<92, 92>>
    ELSE IF c = 10 THEN <<92, 110>>
    ELSE IF c = 13 THEN <<92, 114>>
    ELSE IF c = 9 THEN <<92, 116>>
    ELSE IF c = 12 THEN <<92, 102>>
    ELSE IF c = 8 THEN <<92, 98>>
    ELSE IF c >= 32 /\ c <= 126 THEN <<c>>
    ELSE IF c < 65536 THEN UEscape(c)
    ELSE UEscape(55296 + ((c - 65536) \div 1024))
         \o UEscape(56320 + ((c - 65536) % 1024))

JsonString(s) ==
    <<34>>
    \o The({Flatten([i \in DOMAIN t |-> JsonEscapeChar(t[i])]) : t \in {s}})
    \o <<34>>

\* str(n) for n >= 0
RECURSIVE Digits(_)
Digits(n) ==
    IF n < 10 THEN <<48 + n>>
    ELSE The({Digits(m) : m \in {n \div 10}}) \o <<48 + (n % 10)>>

\* the items of a list or a dict, separated by ", "
RECURSIVE JoinComma(_)
JoinComma(parts) ==
    IF parts = <<>> THEN <<>>
    ELSE IF Len(parts) = 1 THEN parts[1]
    ELSE parts[1] \o <<44, 32>> \o The({JoinComma(rest) : rest \in {Tail(parts)}})

JsonValue(val) ==
    CASE val.kind = "int" -> Digits(val.v)
      [] val.kind = "str" -> JsonString(val.v)
      [] val.kind = "list" ->
           <<91>> \o JoinComma([i \in DOMAIN val.v |-> JsonString(val.v[i])])
           \o <<93>>

\* json.dumps(d) of a dict
JsonDumps(d) ==
    <<123>>
    \o JoinComma([i \in DOMAIN d |->
           JsonString(KeyText(d[i].key)) \o <<58, 32>> \o JsonValue(d[i].val)])
    \o <<125>>

\* dict.get(key, default)
DictHas(d, key) == \E i \in DOMAIN d : d[i].key = key
DictGet(d, key, default) ==
    IF DictHas(d, key)
    THEN d[CHOOSE i \in DOMAIN d : d[i].key = key].val
    ELSE default

(***************************************************************************)
(* The peers of the model: who connects, and with which display name and   *)
(* relay port.                                                             *)
(***************************************************************************)
Clients ==
    { [name |-> ALICE, ip |-> "ip1", port |-> 5001],
      [name |-> BOB, ip |-> "ip2", port |-> 5002] }

RoomNames == {LOBBY, DEN}

\* the payloads a client builds (client.py, payload_data)
RequestPayload(user_name, my_udp_port) ==
    << [key |-> "user_name", val |-> JStr(user_name)],
       [key |-> "udp_port", val |-> JInt(my_udp_port)] >>

\* "[]", a JSON text that is no dict
JSON_EMPTY_LIST == <<91, 93>>

(***************************************************************************)
(* json.loads(text): the scanner of the json module.  A result of the      *)
(* parsers below is [ok, val, next]: whether the text parses at the given  *)
(* position, the value, and the position after it.  A dict is the tagged   *)
(* sequence of its entries; a key that none of the program's code reads    *)
(* is kept under "?"; a float, a literal and a list that holds more than   *)
(* texts are values of kind "other", which the program never reads.        *)
(***************************************************************************)
SetMin(S) == CHOOSE x \in S : \A y \in S : x <= y

JOther == [kind |-> "other", v |-> <<>>]
JDict(d) == [kind |-> "dict", v |-> d]
NoParse == [ok |-> FALSE, val |-> JOther, next |-> 0]
Parsed(val, next) == [ok |-> TRUE, val |-> val, next |-> next]

Keys == {"state", "status", "token", "user_name", "message", "udp_port"}
KeyOf(text) ==
    IF \E k \in Keys : KeyText(k) = text
    THEN CHOOSE k \in Keys : KeyText(k) = text
    ELSE "?"

\* d[key] = val: a key the dict has keeps its place
DictPut(d, key, val) ==
    IF DictHas(d, key)
    THEN [i \in DOMAIN d |-> IF d[i].key = key THEN [key |-> key, val |-> val]
                             ELSE d[i]]
    ELSE Append(d, [key |-> key, val |-> val])

IsWs(c) == c \in {32, 9, 10, 13}
IsDigit(c) == c >= 48 /\ c <= 57
IsHex(c) == IsDigit(c) \/ (c >= 97 /\ c <= 102) \/ (c >= 65 /\ c <= 70)
HexValue(c) == IF IsDigit(c) THEN c - 48 ELSE IF c >= 97 THEN c - 87 ELSE c - 55

\* the first position from p on that holds no whitespace, no digit
SkipWs(t, p) ==
    CHOOSE i \in p..(Len(t) + 1) :
        /\ i <= Len(t) => ~IsWs(t[i])
        /\ \A j \in p..(i - 1) : IsWs(t[j])
SkipDigits(t, p) ==
    CHOOSE i \in p..(Len(t) + 1) :
        /\ i <= Len(t) => ~IsDigit(t[i])
        /\ \A j \in p..(i - 1) : IsDigit(t[j])

At(t, p, c) == p <= Len(t) /\ t[p] = c

\* how many backslashes stand immediately before position q, after the
\* quote at p
BackslashRun(t, p, q) ==
    CHOOSE k \in 0..(q - 1 - p) :
        /\ t[q - 1 - k] # 92
        /\ \A j \in 0..(k - 1) : t[q - 1 - j] = 92

\* a backslash that starts an escape, in the string opened at p
StartsEscape(t, p, i) == t[i] = 92 /\ BackslashRun(t, p, i) % 2 = 0

\* the closing quote of the string opened at p, 0 if none
ClosingQuote(t, p) ==
    LET quotes == {q \in (p + 1)..Len(t) :
                       t[q] = 34 /\ BackslashRun(t, p, q) % 2 = 0}
    IN  IF quotes = {} THEN 0 ELSE SetMin(quotes)

\* the character an escape \c stands for, -1 for an invalid escape
EscapeChar(c) ==
    CASE c = 34 -> 34
      [] c = 92 -> 92
      [] c = 47 -> 47
      [] c = 98 -> 8
      [] c = 102 -> 12
      [] c = 110 -> 10
      [] c = 114 -> 13
      [] c = 116 -> 9
      [] OTHER -> -1

\* what stands at each start of a character of the string body between the
\* quotes at p and q: the character, and whether a \uXXXX escape wrote it
StringUnits(t, p, q) ==
    LET Esc(i) == StartsEscape(t, p, i)
        IsU(i) == Esc(i) /\ t[i + 1] = 117
        Escaped(i) == i > p + 1 /\ Esc(i - 1)
        InHex(i) == \E a \in (i - 5)..(i - 2) : a > p /\ IsU(a)
        IsStart(i) == ~Escaped(i) /\ ~InHex(i)
        UValue(i) == HexValue(t[i + 2]) * 4096 + HexValue(t[i + 3]) * 256
                     + HexValue(t[i + 4]) * 16 + HexValue(t[i + 5])
        Unit(i) ==
            IF IsU(i) THEN [u |-> TRUE, c |-> UValue(i)]
            ELSE IF Esc(i) THEN [u |-> FALSE, c |-> EscapeChar(t[i + 1])]
            ELSE [u |-> FALSE, c |-> t[i]]
        Units(starts) == [j \in DOMAIN starts |-> Unit(starts[j])]
    IN  The({Units(starts) :
                starts \in {SelectSeq([k \in 1..(q - 1 - p) |-> p + k], IsStart)}})

\* every escape of the string body is one of JSON, no control character
\* stands in it
StringValid(t, p, q) ==
    \A i \in (p + 1)..(q - 1) :
        IF StartsEscape(t, p, i)
        THEN IF t[i + 1] = 117
             THEN i + 5 < q /\ \A k \in 2..5 : IsHex(t[i + k])
             ELSE EscapeChar(t[i + 1]) >= 0
        ELSE (i > p + 1 /\ StartsEscape(t, p, i - 1)) \/ t[i] >= 32

\* the characters of the units: a high surrogate escape followed by a low
\* surrogate escape is one character
JoinSurrogates(units) ==
    LET IsHigh(j) == units[j].u /\ units[j].c >= 55296 /\ units[j].c <= 56319
        IsLow(j) == units[j].u /\ units[j].c >= 56320 /\ units[j].c <= 57343
        Paired(j) == j > 1 /\ IsLow(j) /\ IsHigh(j - 1)
        Keep(j) == ~Paired(j)
        Char(j) ==
            IF j < Len(units) /\ Paired(j + 1)
            THEN 65536 + (units[j].c - 55296) * 1024 + (units[j + 1].c - 56320)
            ELSE units[j].c
        Chars(kept) == [k \in DOMAIN kept |-> Char(kept[k])]
    IN  The({Chars(kept) :
                kept \in {SelectSeq([j \in DOMAIN units |-> j], Keep)}})

\* scanstring: the text of the JSON string whose opening quote is at p
StringUpTo(t, p, q) ==
    IF q = 0 THEN NoParse
    ELSE IF ~StringValid(t, p, q) THEN NoParse
    ELSE Parsed(JStr(The({JoinSurrogates(units) :
                             units \in {StringUnits(t, p, q)}})), q + 1)

ParseString(t, p) == The({StringUpTo(t, p, q) : q \in {ClosingQuote(t, p)}})

\* the value of a run of decimal digits
RECURSIVE DecimalValue(_)
DecimalValue(ds) ==
    IF ds = <<>> THEN 0
    ELSE DecimalValue(SubSeq(ds, 1, Len(ds) - 1)) * 10 + (ds[Len(ds)] - 48)

\* NUMBER_RE: (-?(?:0|[1-9]\d*))(\.\d+)?([eE][-+]?\d+)?
\* the end of the fraction that may start at p, the end of the exponent
FractionEnd(t, p) ==
    IF At(t, p, 46) /\ p + 1 <= Len(t) /\ IsDigit(t[p + 1])
    THEN SkipDigits(t, p + 1) ELSE p
ExponentEnd(t, p) ==
    LET first == IF At(t, p + 1, 43) \/ At(t, p + 1, 45) THEN p + 2 ELSE p + 1
    IN  IF (At(t, p, 101) \/ At(t, p, 69))
           /\ first <= Len(t) /\ IsDigit(t[first])
        THEN SkipDigits(t, first) ELSE p

NumberFrom(t, first, int_end, negative) ==
    LET number_end == ExponentEnd(t, FractionEnd(t, int_end))
        magnitude == DecimalValue(SubSeq(t, first, int_end - 1))
    IN  IF int_end = first THEN NoParse
        ELSE IF number_end > int_end THEN Parsed(JOther, number_end)
        ELSE Parsed(JInt(IF negative THEN 0 - magnitude ELSE magnitude), int_end)

ParseNumber(t, p) ==
    LET first == IF At(t, p, 45) THEN p + 1 ELSE p
    IN  The({NumberFrom(t, first, int_end, At(t, p, 45)) :
                int_end \in {IF At(t, first, 48) THEN first + 1
                             ELSE SkipDigits(t, first)}})

\* "true", "false", "null", "NaN", "Infinity", "-Infinity"
Literals ==
    { <<116, 114, 117, 101>>, <<102, 97, 108, 115, 101>>,
      <<110, 117, 108, 108>>, <<78, 97, 78>>,
      <<73, 110, 102, 105, 110, 105, 116, 121>>,
      <<45, 73, 110, 102, 105, 110, 105, 116, 121>> }
StartsWith(t, p, w) ==
    p + Len(w) - 1 <= Len(t) /\ SubSeq(t, p, p + Len(w) - 1) = w

\* a list of texts is a list the model reads, another list is not
ListValue(items) ==
    IF \A i \in DOMAIN items : items[i].kind = "str"
    THEN JList([i \in DOMAIN items |-> items[i].v])
    ELSE JOther

\* _scan_once, JSONArray and JSONObject
RECURSIVE ParseValue(_, _), ParseItems(_, _, _), ParseMembers(_, _, _)
ParseValue(t, p) ==
    IF p > Len(t) THEN NoParse
    ELSE IF t[p] = 34 THEN ParseString(t, p)
    ELSE IF t[p] = 123
         THEN The({IF At(t, first, 125) THEN Parsed(JDict(<<>>), first + 1)
                   ELSE ParseMembers(t, first, <<>>) :
                       first \in {SkipWs(t, p + 1)}})
    ELSE IF t[p] = 91
         THEN The({IF At(t, first, 93) THEN Parsed(JList(<<>>), first + 1)
                   ELSE ParseItems(t, first, <<>>) :
                       first \in {SkipWs(t, p + 1)}})
    ELSE IF \E w \in Literals : StartsWith(t, p, w)
         THEN Parsed(JOther,
                     p + Len(CHOOSE w \in Literals : StartsWith(t, p, w)))
    ELSE ParseNumber(t, p)

\* after the item that was parsed: the end of the list, or a comma and the
\* items that follow
ItemsAfter(t, item, after, all) ==
    IF At(t, after, 93) THEN Parsed(ListValue(all), after + 1)
    ELSE IF At(t, after, 44)
         THEN The({ParseItems(t, next, all) : next \in {SkipWs(t, after + 1)}})
    ELSE NoParse

ItemsWith(t, item, items) ==
    IF ~item.ok THEN NoParse
    ELSE The({ItemsAfter(t, item, after, all) :
                 after \in {SkipWs(t, item.next)},
                 all \in {Append(items, item.val)}})

\* the items of a list from the item at p on, items holding those before it
ParseItems(t, p, items) ==
    The({ItemsWith(t, item, items) : item \in {ParseValue(t, p)}})

\* after the entry that was parsed: the end of the dict, or a comma and the
\* entries that follow
MembersAfter(t, after, all) ==
    IF At(t, after, 125) THEN Parsed(JDict(all), after + 1)
    ELSE IF At(t, after, 44)
         THEN The({ParseMembers(t, next, all) : next \in {SkipWs(t, after + 1)}})
    ELSE NoParse

MembersWithValue(t, key, val, d) ==
    IF ~val.ok THEN NoParse
    ELSE The({MembersAfter(t, after, all) :
                 after \in {SkipWs(t, val.next)},
                 all \in {DictPut(d, KeyOf(key.val.v), val.val)}})

MembersWithKey(t, key, colon, d) ==
    IF ~At(t, colon, 58) THEN NoParse
    ELSE The({MembersWithValue(t, key, val, d) :
                 val \in {ParseValue(t, SkipWs(t, colon + 1))}})

MembersFrom(t, key, d) ==
    IF ~key.ok THEN NoParse
    ELSE The({MembersWithKey(t, key, colon, d) :
                 colon \in {SkipWs(t, key.next)}})

\* the entries of a dict from the key at p on, d holding those before it
ParseMembers(t, p, d) ==
    IF ~At(t, p, 34) THEN NoParse
    ELSE The({MembersFrom(t, key, d) : key \in {ParseString(t, p)}})

\* json.loads(text): [kind, val], kind "error" for a JSONDecodeError
LoadsValue(t, value) ==
    IF ~value.ok \/ SkipWs(t, value.next) <= Len(t)
    THEN [kind |-> "error", val |-> <<>>]
    ELSE [kind |-> value.val.kind, val |-> value.val.v]

LoadsText(t) ==
    The({LoadsValue(t, value) : value \in {ParseValue(t, SkipWs(t, 1))}})

JsonLoads(text) == The({LoadsText(t) : t \in {text}})

(***************************************************************************)
(* The client's encoders (src/client.py).                                  *)
(***************************************************************************)
\* ChatClient._send_tcp_request: the 32-byte header and the body
EncodeRequest(room_name, user_name, operation, my_udp_port) ==
    LET room_name_bytes == Utf8Encode(room_name)
        payload_bytes ==
            Utf8Encode(JsonDumps(RequestPayload(user_name, my_udp_port)))
    IN  [header |-> <<Len(room_name_bytes), operation, 0>>
                    \o ToBytesBig(Len(payload_bytes), 29),
         body |-> room_name_bytes \o payload_bytes]

\* ChatClient._send_udp_message: the relay datagram
EncodeDatagram(room_name, token, message) ==
    LET room_name_bytes == Utf8Encode(room_name)
        token_bytes == Utf8Encode(token)
    IN  <<Len(room_name_bytes), Len(token_bytes)>>
        \o room_name_bytes \o token_bytes \o Utf8Encode(message)

\* dict.get(key) of a key the dict has not: None
NONE == [kind |-> "none", v |-> <<>>]

\* ChatClient._receve_tcp_message on the bytes the server wrote: what the
\* client reads out of the frame, raised for a frame it gives up on
GaveUp == [raised |-> TRUE, operation |-> 0, room_name |-> <<>>,
           payload |-> <<>>, success |-> FALSE, token |-> NONE,
           user_name |-> NONE, message |-> NONE]

DecodeResponse(frame) ==
    LET header == Slice(frame, 0, 32)
        room_name_length == header[1]
        operation == header[2]
        payload_length == FromBytesBig(SliceFrom(header, 3))
        response_data == Slice(frame, 32, 32 + room_name_length + payload_length)
        response_room_name == Utf8Decode(Slice(response_data, 0, room_name_length))
        response_payload == Utf8Decode(SliceFrom(response_data, room_name_length))
        response_json == JsonLoads(response_payload.str)
    IN  IF Len(header) # 32 THEN GaveUp
        ELSE IF ~response_room_name.ok \/ ~response_payload.ok THEN GaveUp
        ELSE IF response_json.kind # "dict" THEN GaveUp
        ELSE [raised |-> FALSE, operation |-> operation,
              room_name |-> response_room_name.str,
              payload |-> response_json.val,
              success |-> DictGet(response_json.val, "status", NONE)
                              = JStr(SUCCESS_TEXT),
              token |-> DictGet(response_json.val, "token", NONE),
              user_name |-> DictGet(response_json.val, "user_name", NONE),
              message |-> DictGet(response_json.val, "message", NONE)]

(***************************************************************************)
(* State.                                                                  *)
(***************************************************************************)
VARIABLES
    chat_rooms,        \* ChatServer.chat_rooms: entries [name, room], in order
    heap,              \* the live ChatRoom objects, by reference
    client_addresses,  \* ChatServer.client_addresses: token -> <<ip, port>>
    minted,            \* how many tokens uuid.uuid4() has handed out
    tcp,               \* per handler thread: its position and its locals
    udp,               \* the relay loop: its position and its locals
    started,           \* connections and datagrams taken up under SpecConc
    pre,               \* under Spec: the registry when the handler at work began
    is_server_running, \* ChatServer.is_server_running
    tcp_server,        \* the accept loop: in accept(), or out of its loop
    server_start,      \* the main thread: in its sleep loop, or returned
    client,            \* one ChatClient in a chat session: its flag and loops
    issued,            \* per token: the success responses written that carry it
    torn               \* the (name, token) memberships that teardowns ended

vars == <<chat_rooms, heap, client_addresses, minted, tcp, udp, started, pre,
          is_server_running, issued, torn, tcp_server, server_start, client>>

(***************************************************************************)
(* Insertion-ordered dicts.                                                *)
(***************************************************************************)
\* room_name in self.chat_rooms
RoomsHas(cr, name) == \E i \in DOMAIN cr : cr[i].name = name

\* self.chat_rooms[room_name], for a name that is present
RoomsGet(cr, name) == cr[CHOOSE i \in DOMAIN cr : cr[i].name = name].room

\* a table that puts a new name in front
RoomsSetFront(cr, name, ref) ==
    <<[name |-> name, room |-> ref]>> \o SelectSeq(cr, LAMBDA e : e.name # name)

\* self.chat_rooms[room_name] = room: a present key keeps its place
RoomsSet(cr, name, ref) ==
    IF RoomsHas(cr, name)
    THEN [i \in DOMAIN cr |->
             IF cr[i].name = name THEN [name |-> name, room |-> ref] ELSE cr[i]]
    ELSE Append(cr, [name |-> name, room |-> ref])

\* a removal that leaves the room in the table
RoomsDelNone(cr, name) == cr

\* del self.chat_rooms[room_name]
RoomsDel(cr, name) == SelectSeq(cr, LAMBDA e : e.name # name)

\* list(self.chat_rooms.keys())
RoomsKeys(cr) == [i \in DOMAIN cr |-> cr[i].name]

\* token in room.tokens
TokensHas(tokens, token) == \E i \in DOMAIN tokens : tokens[i].token = token

\* room.tokens[token], for a token that is present
TokensGet(tokens, token) ==
    tokens[CHOOSE i \in DOMAIN tokens : tokens[i].token = token]

(***************************************************************************)
(* class ChatRoom.                                                         *)
(***************************************************************************)
\* the references held by the table, by the handlers' locals and by the
\* relay loop's local (0 is no reference)
Refs(cr, tc, u) ==
    {cr[i].room : i \in DOMAIN cr} \cup {tc[h].room : h \in Handlers}
    \cup {u.room}

\* the heap once the objects nothing refers to are freed
Gc(hp, cr, tc, u) == [r \in DOMAIN hp \cap Refs(cr, tc, u) |-> hp[r]]

\* ChatRoom.__init__
NewChatRoom(room_name, host_token) ==
    [room_name |-> room_name, host_token |-> host_token, tokens |-> <<>>]

\* ChatRoom.add_user
add_user(room, token, user_name, ip, port) ==
    LET m == [token |-> token, user_name |-> user_name, ip |-> ip, port |-> port]
    IN  [room EXCEPT !.tokens =
            IF TokensHas(room.tokens, token)
            THEN [i \in DOMAIN room.tokens |->
                     IF room.tokens[i].token = token THEN m ELSE room.tokens[i]]
            ELSE Append(room.tokens, m)]

\* a removal that removes nothing
remove_user_keep(room, token) == room

\* ChatRoom.remove_user
remove_user(room, token) ==
    [room EXCEPT !.tokens = SelectSeq(room.tokens, LAMBDA m : m.token # token)]

\* a room that takes nobody for its host
is_host_never(room, token) == FALSE

\* ChatRoom.is_host
is_host(room, token) == token = room.host_token

\* ChatRoom.validated_token
validated_token(room, token, ip) ==
    TokensHas(room.tokens, token) /\ TokensGet(room.tokens, token).ip = ip

\* a generator that hands out one text over and over
UuidSame(k) == <<116, 49>>

(***************************************************************************)
(* uuid.uuid4(): the k-th token handed out.  Two calls never return the    *)
(* same text; the model writes the k-th one "t<k>".                        *)
(***************************************************************************)
Uuid(k) == <<116, 48 + k>>

AllTokens == {Uuid(k) : k \in 1..MaxTokens}

(***************************************************************************)
(* The server's texts.                                                     *)
(***************************************************************************)
\* "ルームが作成済みです"
MSG_ROOM_EXISTS ==
    <<12523, 12540, 12512, 12364, 20316, 25104, 28168, 12415, 12391, 12377>>
\* "ルームが存在しません"
MSG_ROOM_NOT_FOUND ==
    <<12523, 12540, 12512, 12364, 23384, 22312, 12375, 12414, 12379, 12435>>
\* "不正な操作です"
MSG_BAD_OPERATION == <<19981, 27491, 12394, 25805, 20316, 12391, 12377>>
\* "ルーム名：" ... "が作成されました" / "に参加しました"
MSG_ROOM_PREFIX == <<12523, 12540, 12512, 21517, 65306>>
MSG_CREATED_SUFFIX == <<12364, 20316, 25104, 12373, 12428, 12414, 12375, 12383>>
MSG_JOINED_SUFFIX == <<12395, 21442, 21152, 12375, 12414, 12375, 12383>>
\* "[システム]: ホストが退出したため、ルーム:" ... "が閉じられました"
QUIT_PREFIX ==
    <<91, 12471, 12473, 12486, 12512, 93, 58, 32, 12507, 12473, 12488, 12364,
      36864, 20986, 12375, 12383, 12383, 12417, 12289, 12523, 12540, 12512, 58>>
QUIT_SUFFIX == <<12364, 38281, 12376, 12425, 12428, 12414, 12375, 12383>>
\* "[システム]: " ... "が退出しました"
LEAVE_PREFIX == <<91, 12471, 12473, 12486, 12512, 93, 58, 32>>
LEAVE_SUFFIX == <<12364, 36864, 20986, 12375, 12414, 12375, 12383>>

\* quit_message, leave_message, formated_message of _relay_message
QuitMessage(room_name) == QUIT_PREFIX \o room_name \o QUIT_SUFFIX
LeaveMessage(sender_user_name) == LEAVE_PREFIX \o sender_user_name \o LEAVE_SUFFIX
FormatedMessage(sender_user_name, message) ==
    <<91>> \o sender_user_name \o <<93, 58, 32>> \o message

\* the dicts _create_room, _join_room, _list_rooms and the dispatcher return
ErrorResponse(message) ==
    << [key |-> "state", val |-> JInt(1)],
       [key |-> "status", val |-> JStr(ERROR_TEXT)],
       [key |-> "message", val |-> JStr(message)] >>

SuccessResponse(token, user_name, message) ==
    << [key |-> "state", val |-> JInt(2)],
       [key |-> "status", val |-> JStr(SUCCESS_TEXT)],
       [key |-> "token", val |-> JStr(token)],
       [key |-> "user_name", val |-> JStr(user_name)],
       [key |-> "message", val |-> JStr(message)] >>

ListResponse(names) ==
    << [key |-> "state", val |-> JInt(2)],
       [key |-> "status", val |-> JStr(SUCCESS_TEXT)],
       [key |-> "message", val |-> JList(names)] >>

(***************************************************************************)
(* What a TCP peer delivers: the bytes recv(32) returns, then the bytes    *)
(* that are there for the second recv; and the address accept() reports.   *)
(***************************************************************************)
Req(ip, header, body) == [ip |-> ip, header |-> header, body |-> body]

ClientReq(c, operation, room_name) ==
    LET f == EncodeRequest(room_name, c.name, operation, c.port)
    IN  Req(c.ip, f.header, f.body)

\* the frames ChatClient sends when alice creates (1) and bob joins (2)
CreateJoinReqs ==
    {ClientReq(c, IF c.name = ALICE THEN 1 ELSE 2, room_name) :
        c \in Clients, room_name \in RoomNames}

\* the frame ChatClient._list_rooms sends
ListReq ==
    LET f == EncodeRequest(<<>>, <<>>, 3, 0) IN Req("ip1", f.header, f.body)

AliceCreate == EncodeRequest(LOBBY, ALICE, 1, 5001)
AlicePayload == SliceFrom(AliceCreate.body, 5)

\* a header of room-name length L, operation, state and payload length P
Header(L, operation, state, P) == <<L, operation, state>> \o ToBytesBig(P, 29)

\* complete frames no ChatClient sends
OddReqs ==
    { \* operation codes 4 and 0
      Req("ip1", Header(5, 4, 0, Len(AlicePayload)), AliceCreate.body),
      Req("ip1", Header(5, 0, 0, Len(AlicePayload)), AliceCreate.body),
      \* state byte 1 and 2 on a create
      Req("ip1", Header(5, 1, 1, Len(AlicePayload)), AliceCreate.body),
      Req("ip1", Header(5, 2, 2, Len(AlicePayload)), AliceCreate.body),
      \* a create and a join with no payload at all (P = 0)
      Req("ip1", Header(5, 1, 0, 0), LOBBY),
      Req("ip1", Header(5, 2, 0, 0), LOBBY) }

\* frames that do not decode
BadReqs ==
    { \* the peer closes without a byte, and after 10 bytes of header
      Req("ip1", <<>>, <<>>),
      Req("ip1", SubSeq(Header(5, 2, 0, 0), 1, 10), <<>>),
      \* the body ends with the room name, and 10 bytes into the payload
      Req("ip1", AliceCreate.header, SubSeq(AliceCreate.body, 1, 5)),
      Req("ip1", AliceCreate.header, SubSeq(AliceCreate.body, 1, 15)),
      \* the room name is not UTF-8
      Req("ip1", Header(1, 1, 0, Len(AlicePayload)), <<255>> \o AlicePayload),
      \* the payload is not UTF-8
      Req("ip1", Header(5, 1, 0, 2), LOBBY \o <<255, 254>>),
      \* the payload is not JSON: "nope"
      Req("ip1", Header(5, 1, 0, 4), LOBBY \o <<110, 111, 112, 101>>),
      \* the payload is JSON but no object: "[]"
      Req("ip1", Header(5, 1, 0, 2), LOBBY \o JSON_EMPTY_LIST) }

TcpInputs == CreateJoinReqs \cup {ListReq} \cup OddReqs \cup BadReqs

(***************************************************************************)
(* ChatServer._handle_tcp_client, up to the dispatch: the locals it        *)
(* computes from what it received, or raised = TRUE when an exception      *)
(* leaves the try block (IndexError on a header of fewer than 3 bytes,     *)
(* UnicodeDecodeError on the room name).                                   *)
(***************************************************************************)
Raised == [raised |-> TRUE, room_name |-> <<>>, operation |-> 0, state |-> 0,
           user_name |-> <<>>, udp_port |-> 0]

ParsePayload(body_data, room_name_size, payload_data_size) ==
    LET empty == [user_name |-> <<>>, udp_port |-> 0]
    IN  IF payload_data_size > 0
        THEN LET payload_data == Utf8Decode(SliceFrom(body_data, room_name_size))
             IN  IF ~payload_data.ok THEN empty
                 ELSE LET payload_json == JsonLoads(payload_data.str)
                      IN  IF payload_json.kind # "dict" THEN empty
                          ELSE [user_name |->
                                    DictGet(payload_json.val, "user_name",
                                            JStr(<<>>)).v,
                                udp_port |->
                                    DictGet(payload_json.val, "udp_port",
                                            JInt(0)).v]
        ELSE empty

DecodeRequest(req) ==
    IF Len(req.header) < 3 THEN Raised
    ELSE LET room_name_size == req.header[1]
             operation == req.header[2]
             state == req.header[3]
             payload_data_size == FromBytesBig(Slice(req.header, 3, 32))
             expected_body_size == room_name_size + payload_data_size
             body_data == Slice(req.body, 0, expected_body_size)
             room_name == Utf8Decode(Slice(body_data, 0, room_name_size))
             payload ==
                 ParsePayload(body_data, room_name_size, payload_data_size)
         IN  IF ~room_name.ok THEN Raised
             ELSE [raised |-> FALSE, room_name |-> room_name.str,
                   operation |-> operation, state |-> state,
                   user_name |-> payload.user_name,
                   udp_port |-> payload.udp_port]

\* a response encoder that always writes the success state byte
EncodeResponseOk(room_name, operation, response_data) ==
    LET response_bytes == Utf8Encode(JsonDumps(response_data))
        room_name_bytes == Utf8Encode(room_name)
    IN  <<Len(room_name_bytes), operation, 2>>
        \o ToBytesBig(Len(response_bytes), 29)
        \o room_name_bytes \o response_bytes

(***************************************************************************)
(* ChatServer._sned_tcp_response: the bytes sendall writes.                *)
(***************************************************************************)
EncodeResponse(room_name, operation, response_data) ==
    LET response_bytes == Utf8Encode(JsonDumps(response_data))
        room_name_bytes == Utf8Encode(room_name)
    IN  <<Len(room_name_bytes), operation,
          DictGet(response_data, "state", JInt(0)).v>>
        \o ToBytesBig(Len(response_bytes), 29)
        \o room_name_bytes \o response_bytes

(***************************************************************************)
(* Handler threads (ChatServer._handle_tcp_client, one per connection).    *)
(*                                                                         *)
(* pc: idle -> dispatch -> create_check -> create_insert -> create_addr    *)
(*                      -> join_check -> join_lookup -> join_add           *)
(*                         -> join_addr                                    *)
(*          ... -> respond -> finally -> closed -> idle                    *)
(* out holds the frames handed to sendall, send_failed tells that sendall  *)
(* raised (the except clauses of _sned_tcp_response).                      *)
(***************************************************************************)
NoReq == Req("", <<>>, <<>>)

NoPre == [chat_rooms |-> <<>>, heap |-> <<>>, client_addresses |-> <<>>]

IdleTcp ==
    [pc |-> "idle", req |-> NoReq, raised |-> FALSE,
     room_name |-> <<>>, operation |-> 0, state |-> 0,
     user_name |-> <<>>, udp_port |-> 0,
     room |-> 0, token |-> <<>>, response_data |-> <<>>,
     out |-> <<>>, send_failed |-> FALSE, closed |-> FALSE]

IdleUdp ==
    [pc |-> "idle", data |-> <<>>, client_address |-> <<"", 0>>,
     room_name |-> <<>>, token |-> <<>>, message |-> <<>>,
     room |-> 0, sender_user_name |-> <<>>,
     it_pos |-> 0, it_used |-> 0,
     sent |-> <<>>, failed |-> {}, outcome |-> ""]

\* no thread is inside a handler
Quiescent == udp.pc = "idle" /\ \A h \in Handlers : tcp[h].pc = "idle"

\* handlers that have yet to call uuid.uuid4()
WillMint(t) ==
    \/ t.pc \in {"create_check", "create_insert", "join_check", "join_lookup",
                 "join_add"}
    \/ t.pc = "dispatch" /\ t.state = 0 /\ t.operation \in {1, 2}

MintsLeft ==
    MaxTokens - minted - Cardinality({h \in Handlers : WillMint(tcp[h])})

(***************************************************************************)
(* The requests of the frame round trip: room names of 0, 5, 5, 4, 255 and *)
(* 255 UTF-8 bytes with characters of one to four bytes, display names     *)
(* with a quote, a backslash, a line feed, control and non-ASCII           *)
(* characters, the least and the greatest port.                            *)
(***************************************************************************)
\* how many connections SpecCodec takes up in one run
MaxCodecOps == 2

CodecNames ==
    << <<>>, LOBBY, <<233, 12354>>, <<128512>>,
       [i \in 1..255 |-> 97], [i \in 1..85 |-> 12354] >>
CodecUsers ==
    << ALICE, <<>>, <<97, 34, 92, 10, 47>>, <<233, 12354, 128512>>,
       <<1, 127, 9>> >>
CodecPorts == <<5001, 0, 65535>>

CodecProfiles ==
    { [operation |-> operation, room_name |-> CodecNames[i],
       user_name |-> CodecUsers[((i + operation) % 5) + 1],
       udp_port |-> CodecPorts[((i + operation) % 3) + 1]] :
          i \in DOMAIN CodecNames, operation \in 1..3 }

\* the frame ChatClient._send_tcp_request writes for a profile
CodecFrames ==
    [f \in CodecProfiles |->
        LET e == EncodeRequest(f.room_name, f.user_name, f.operation, f.udp_port)
        IN  Req("ip1", e.header, e.body)]
CodecReqs == {CodecFrames[f] : f \in CodecProfiles}

\* DecodeRequest on every request of the model
DecodedRequests ==
    [req \in TcpInputs \cup CodecReqs |-> DecodeRequest(req)]

\* lines 134-191: accept a connection, receive and decode the request
TcpAccept(h, req) ==
    LET d == DecodedRequests[req]
    IN  /\ tcp_server = "accept"
        /\ is_server_running
        /\ tcp[h].pc = "idle"
        /\ (~d.raised /\ d.state = 0 /\ d.operation \in {1, 2}) => MintsLeft > 0
        /\ tcp' = [tcp EXCEPT ![h] =
               [IdleTcp EXCEPT
                   !.pc = IF d.raised THEN "finally" ELSE "dispatch",
                   !.req = req, !.raised = d.raised,
                   !.room_name = d.room_name, !.operation = d.operation,
                   !.state = d.state, !.user_name = d.user_name,
                   !.udp_port = d.udp_port]]
        /\ UNCHANGED <<chat_rooms, heap, client_addresses, minted, udp,
                       is_server_running, issued, torn,
                       tcp_server, server_start, client>>

\* ChatServer._list_rooms
list_rooms(cr) == ListResponse(RoomsKeys(cr))

\* lines 194-211: the dispatch on state and operation
TcpDispatch(h) ==
    LET t == tcp[h]
    IN  /\ t.pc = "dispatch"
        /\ tcp' = [tcp EXCEPT ![h] =
               IF t.state = 0
               THEN IF t.operation = 1 THEN [t EXCEPT !.pc = "create_check"]
                    ELSE IF t.operation = 2 THEN [t EXCEPT !.pc = "join_check"]
                    ELSE IF t.operation = 3
                         THEN [t EXCEPT !.pc = "respond",
                                        !.response_data = list_rooms(chat_rooms)]
                    ELSE [t EXCEPT !.pc = "respond",
                                   !.response_data =
                                       ErrorResponse(MSG_BAD_OPERATION)]
               ELSE [t EXCEPT !.pc = "finally"]]
        /\ UNCHANGED <<chat_rooms, heap, client_addresses, minted, udp, started, pre,
                   is_server_running, issued, torn,
                       tcp_server, server_start, client>>

\* a create that does not look whether the name is taken
CreateCheckBlind(h) ==
    LET t == tcp[h]
    IN  /\ t.pc = "create_check"
        /\ tcp' = [tcp EXCEPT ![h] = [t EXCEPT !.pc = "create_insert"]]
        /\ UNCHANGED <<chat_rooms, heap, client_addresses, minted, udp, started, pre,
                   is_server_running, issued, torn,
                       tcp_server, server_start, client>>

\* _create_room, lines 229-230: is the name taken?
CreateCheck(h) ==
    LET t == tcp[h]
    IN  /\ t.pc = "create_check"
        /\ tcp' = [tcp EXCEPT ![h] =
               IF RoomsHas(chat_rooms, t.room_name)
               THEN [t EXCEPT !.pc = "respond",
                              !.response_data = ErrorResponse(MSG_ROOM_EXISTS)]
               ELSE [t EXCEPT !.pc = "create_insert"]]
        /\ UNCHANGED <<chat_rooms, heap, client_addresses, minted, udp, started, pre,
                   is_server_running, issued, torn,
                       tcp_server, server_start, client>>

\* _create_room, lines 233-238: mint the host token, build the room, put it
\* in the table (the new object's reference is the number of its host
\* token; a room this replaces in the table loses that reference)
CreateInsert(h) ==
    LET t == tcp[h]
        host_token == Uuid(minted + 1)
        ref == minted + 1
        room == add_user(NewChatRoom(t.room_name, host_token),
                         host_token, t.user_name, t.req.ip, t.udp_port)
    IN  /\ t.pc = "create_insert"
        /\ minted < MaxTokens
        /\ minted' = minted + 1
        /\ chat_rooms' = RoomsSet(chat_rooms, t.room_name, ref)
        /\ tcp' = [tcp EXCEPT ![h] =
               [t EXCEPT !.pc = "create_addr", !.token = host_token,
                         !.room = ref]]
        /\ heap' = Gc([r \in DOMAIN heap \cup {ref} |->
                          IF r = ref THEN room ELSE heap[r]],
                      chat_rooms', tcp', udp)
        /\ UNCHANGED <<client_addresses, udp, started, pre,
                   is_server_running, issued, torn,
                       tcp_server, server_start, client>>

\* client_addresses[token] = (ip, udp_port)
AddrSet(ca, token, addr) ==
    [k \in DOMAIN ca \cup {token} |-> IF k = token THEN addr ELSE ca[k]]

\* for token in tokens: if token in client_addresses: del client_addresses[token]
AddrDel(ca, tokens) == [k \in DOMAIN ca \ tokens |-> ca[k]]

\* _create_room, lines 241-253: record the address, build the response
CreateAddr(h) ==
    LET t == tcp[h]
    IN  /\ t.pc = "create_addr"
        /\ client_addresses' =
               AddrSet(client_addresses, t.token, <<t.req.ip, t.udp_port>>)
        /\ tcp' = [tcp EXCEPT ![h] =
               [t EXCEPT !.pc = "respond",
                         !.response_data =
                             SuccessResponse(t.token, t.user_name,
                                 MSG_ROOM_PREFIX \o t.room_name
                                 \o MSG_CREATED_SUFFIX)]]
        /\ UNCHANGED <<chat_rooms, heap, minted, udp, started, pre,
                   is_server_running, issued, torn,
                       tcp_server, server_start, client>>

\* _join_room, lines 260-261: does the room exist?
JoinCheck(h) ==
    LET t == tcp[h]
    IN  /\ t.pc = "join_check"
        /\ tcp' = [tcp EXCEPT ![h] =
               IF ~RoomsHas(chat_rooms, t.room_name)
               THEN [t EXCEPT !.pc = "respond",
                              !.response_data =
                                  ErrorResponse(MSG_ROOM_NOT_FOUND)]
               ELSE [t EXCEPT !.pc = "join_lookup"]]
        /\ UNCHANGED <<chat_rooms, heap, client_addresses, minted, udp, started, pre,
                   is_server_running, issued, torn,
                       tcp_server, server_start, client>>

\* _join_room, line 264: room = self.chat_rooms[room_name]; a KeyError
\* leaves the handler's try block
JoinLookup(h) ==
    LET t == tcp[h]
    IN  /\ t.pc = "join_lookup"
        /\ tcp' = [tcp EXCEPT ![h] =
               IF RoomsHas(chat_rooms, t.room_name)
               THEN [t EXCEPT !.pc = "join_add",
                              !.room = RoomsGet(chat_rooms, t.room_name)]
               ELSE [t EXCEPT !.pc = "finally", !.raised = TRUE]]
        /\ UNCHANGED <<chat_rooms, heap, client_addresses, minted, udp, started, pre,
                   is_server_running, issued, torn,
                       tcp_server, server_start, client>>

\* _join_room, lines 267-270: mint the token, add the member to the room
JoinAdd(h) ==
    LET t == tcp[h]
        user_token == Uuid(minted + 1)
    IN  /\ t.pc = "join_add"
        /\ minted < MaxTokens
        /\ minted' = minted + 1
        /\ heap' = [heap EXCEPT ![t.room] =
               add_user(heap[t.room], user_token, t.user_name, t.req.ip,
                        t.udp_port)]
        /\ tcp' = [tcp EXCEPT ![h] =
               [t EXCEPT !.pc = "join_addr", !.token = user_token]]
        /\ UNCHANGED <<chat_rooms, client_addresses, udp, started, pre,
                   is_server_running, issued, torn,
                       tcp_server, server_start, client>>

\* _join_room, lines 273-285: record the address, build the response
JoinAddr(h) ==
    LET t == tcp[h]
    IN  /\ t.pc = "join_addr"
        /\ client_addresses' =
               AddrSet(client_addresses, t.token, <<t.req.ip, t.udp_port>>)
        /\ tcp' = [tcp EXCEPT ![h] =
               [t EXCEPT !.pc = "respond",
                         !.response_data =
                             SuccessResponse(t.token, t.user_name,
                                 MSG_ROOM_PREFIX \o t.room_name
                                 \o MSG_JOINED_SUFFIX)]]
        /\ UNCHANGED <<chat_rooms, heap, minted, udp, started, pre,
                   is_server_running, issued, torn,
                       tcp_server, server_start, client>>

\* lines 214-217 and _sned_tcp_response: write the response frame; an error
\* of sendall is caught there and the handler goes on to close
TcpRespond(h) ==
    LET t == tcp[h]
        frame == EncodeResponse(t.room_name, t.operation, t.response_data)
    IN  /\ t.pc = "respond"
        /\ \E fails \in BOOLEAN :
               tcp' = [tcp EXCEPT ![h] =
                   [t EXCEPT !.pc = "finally", !.out = Append(t.out, frame),
                             !.send_failed = fails]]
        /\ issued' = IF DictHas(t.response_data, "token")
                     THEN LET token == DictGet(t.response_data, "token",
                                               JStr(<<>>)).v
                          IN  [issued EXCEPT ![token] = issued[token] + 1]
                     ELSE issued
        /\ UNCHANGED <<chat_rooms, heap, client_addresses, minted, udp, started,
                       pre, is_server_running, torn,
                       tcp_server, server_start, client>>

\* a close that stops the server when the handler had raised
TcpCloseStop(h) ==
    /\ tcp[h].pc = "finally"
    /\ tcp' = [tcp EXCEPT ![h] = [tcp[h] EXCEPT !.pc = "closed", !.closed = TRUE]]
    /\ is_server_running' = (is_server_running /\ ~tcp[h].raised)
    /\ UNCHANGED <<chat_rooms, heap, client_addresses, minted, udp, started, pre,
                   issued, torn,
                   tcp_server, server_start, client>>

\* lines 219-222: finally: client_socket.close()
TcpClose(h) ==
    /\ tcp[h].pc = "finally"
    /\ tcp' = [tcp EXCEPT ![h] = [tcp[h] EXCEPT !.pc = "closed", !.closed = TRUE]]
    /\ UNCHANGED <<chat_rooms, heap, client_addresses, minted, udp, started, pre,
                   is_server_running, issued, torn,
                   tcp_server, server_start, client>>

\* the handler thread ends
TcpExit(h) ==
    /\ tcp[h].pc = "closed"
    /\ tcp' = [tcp EXCEPT ![h] = IdleTcp]
    /\ heap' = Gc(heap, chat_rooms, tcp', udp)
    /\ pre' = NoPre
    /\ UNCHANGED <<chat_rooms, client_addresses, minted, udp, started,
                   is_server_running, issued, torn,
                   tcp_server, server_start, client>>

(***************************************************************************)
(* The relay loop (ChatServer._udp_server and _relay_message).             *)
(*                                                                         *)
(* pc: idle -> relay -> host_notify -> host_delete -> host_cleanup         *)
(*                   -> member_remove -> member_notify                     *)
(*                   -> chat_send                                          *)
(*          ... -> done -> idle                                            *)
(* sent holds the sendto calls made for the datagram in hand and failed    *)
(* the positions in sent of the calls that raised; outcome tells how its   *)
(* processing ended.  An iteration over room.tokens is the position it_pos *)
(* and the dict size it_used taken at the loop's first turn: the dict      *)
(* iterator raises RuntimeError when the size has changed.                 *)
(***************************************************************************)
Datagram(data, ip) == [data |-> data, client_address |-> <<ip, 6000>>]

Messages == {HI, QUIT, QUIT_UPPER}

IPs == {c.ip : c \in Clients}

\* the datagrams ChatClient._send_udp_message builds, from either address
\* a datagram for "lobby" whose message is no UTF-8
BadDatagram ==
    Datagram(<<5, 2>> \o Utf8Encode(LOBBY) \o Utf8Encode(Uuid(1)) \o <<255>>,
             "ip1")

UdpInputs ==
    {Datagram(EncodeDatagram(room_name, token, message), ip) :
        room_name \in RoomNames, token \in AllTokens, message \in Messages,
        ip \in IPs}
    \cup {BadDatagram}

\* datagrams of fewer than 2 + Lr + Lt bytes: the length bytes alone, one
\* byte, a token cut short, and the length byte of the token over-stating
\* the token "t1" that ends the datagram
ShortDatagrams ==
    {Datagram(data, "ip1") :
        data \in {<<5, 2>>, <<5>>,
                  <<5, 2>> \o Utf8Encode(LOBBY) \o <<116>>,
                  <<5, 10>> \o Utf8Encode(LOBBY) \o Utf8Encode(Uuid(1))}}

\* _udp_server, lines 347-354: split the datagram; raised = TRUE for an
\* IndexError or a UnicodeDecodeError
DecodeDatagram(data) ==
    LET bad == [raised |-> TRUE, room_name |-> <<>>, token |-> <<>>,
                message |-> <<>>]
    IN  IF Len(data) < 2 THEN bad
        ELSE LET room_name_size == data[1]
                 token_size == data[2]
                 room_name == Utf8Decode(Slice(data, 2, 2 + room_name_size))
                 token == Utf8Decode(Slice(data, 2 + room_name_size,
                                           2 + room_name_size + token_size))
                 message == Utf8Decode(SliceFrom(data,
                                           2 + room_name_size + token_size))
             IN  IF room_name.ok /\ token.ok /\ message.ok
                 THEN [raised |-> FALSE, room_name |-> room_name.str,
                       token |-> token.str, message |-> message.str]
                 ELSE bad

\* udp_socket.sendto(bytes, (ip, port)) inside its try: the call is made,
\* and when it raises (fails) the except clause prints and the loop goes on
SendTo(u, text, m, fails) ==
    [u EXCEPT !.sent = Append(u.sent, [data |-> Utf8Encode(text),
                                       addr |-> <<m.ip, m.port>>]),
              !.failed = IF fails THEN u.failed \cup {Len(u.sent) + 1}
                         ELSE u.failed]

Finish(u, outcome) == [u EXCEPT !.pc = "done", !.outcome = outcome]

\* DecodeDatagram on every datagram of the model
DecodedDatagrams ==
    [dg \in UdpInputs \cup ShortDatagrams |-> DecodeDatagram(dg.data)]

\* lines 342-354: receive one datagram and decode it
UdpRecv(dg) ==
    LET d == DecodedDatagrams[dg]
        u == [IdleUdp EXCEPT !.data = dg.data,
                             !.client_address = dg.client_address,
                             !.room_name = d.room_name, !.token = d.token,
                             !.message = d.message]
    IN  /\ udp.pc = "idle"
        /\ udp' = IF d.raised THEN Finish(u, "error") ELSE [u EXCEPT !.pc = "relay"]
        /\ UNCHANGED <<chat_rooms, heap, client_addresses, minted, tcp,
                       is_server_running, issued, torn,
                       tcp_server, server_start, client>>

\* a relay that answers a datagram for a room that is not there
RelayLookupNack ==
    /\ udp.pc = "relay"
    /\ udp' =
         IF ~RoomsHas(chat_rooms, udp.room_name)
         THEN Finish(SendTo(udp, MSG_ROOM_NOT_FOUND,
                            [ip |-> udp.client_address[1],
                             port |-> udp.client_address[2]], FALSE),
                     "no_room")
         ELSE LET ref == RoomsGet(chat_rooms, udp.room_name)
                  room == heap[ref]
              IN  IF ~TokensHas(room.tokens, udp.token)
                  THEN Finish(udp, "error")
                  ELSE LET u == [udp EXCEPT
                                   !.room = ref,
                                   !.sender_user_name =
                                       TokensGet(room.tokens, udp.token).user_name,
                                   !.it_pos = 1,
                                   !.it_used = Len(room.tokens)]
                       IN  IF Lower(udp.message) = QUIT
                           THEN IF is_host(room, udp.token)
                                THEN [u EXCEPT !.pc = "host_notify"]
                                ELSE [u EXCEPT !.pc = "member_remove"]
                           ELSE [u EXCEPT !.pc = "chat_send"]
    /\ UNCHANGED <<chat_rooms, heap, client_addresses, minted, tcp, started, pre,
                   is_server_running, issued, torn,
                   tcp_server, server_start, client>>

\* a relay that takes a token it does not know for a nameless member
RelayLookupLax ==
    /\ udp.pc = "relay"
    /\ udp' =
         IF ~RoomsHas(chat_rooms, udp.room_name) THEN Finish(udp, "no_room")
         ELSE LET ref == RoomsGet(chat_rooms, udp.room_name)
                  room == heap[ref]
                  u == [udp EXCEPT
                           !.room = ref,
                           !.sender_user_name =
                               IF TokensHas(room.tokens, udp.token)
                               THEN TokensGet(room.tokens, udp.token).user_name
                               ELSE <<>>,
                           !.it_pos = 1,
                           !.it_used = Len(room.tokens)]
              IN  IF Lower(udp.message) = QUIT
                  THEN IF is_host(room, udp.token)
                       THEN [u EXCEPT !.pc = "host_notify"]
                       ELSE [u EXCEPT !.pc = "member_remove"]
                  ELSE [u EXCEPT !.pc = "chat_send"]
    /\ UNCHANGED <<chat_rooms, heap, client_addresses, minted, tcp, started, pre,
                   is_server_running, issued, torn,
                   tcp_server, server_start, client>>

\* _relay_message, lines 382-398 and 448-452: find the room, check the
\* token (a failed check only prints), look the sender up, pick the branch
RelayLookup ==
    /\ udp.pc = "relay"
    /\ udp' =
         IF ~RoomsHas(chat_rooms, udp.room_name) THEN Finish(udp, "no_room")
         ELSE LET ref == RoomsGet(chat_rooms, udp.room_name)
                  room == heap[ref]
              IN  IF ~TokensHas(room.tokens, udp.token)
                  THEN Finish(udp, "error")
                  ELSE LET u == [udp EXCEPT
                                   !.room = ref,
                                   !.sender_user_name =
                                       TokensGet(room.tokens, udp.token).user_name,
                                   !.it_pos = 1,
                                   !.it_used = Len(room.tokens)]
                       IN  IF Lower(udp.message) = QUIT
                           THEN IF is_host(room, udp.token)
                                THEN [u EXCEPT !.pc = "host_notify"]
                                ELSE [u EXCEPT !.pc = "member_remove"]
                           ELSE [u EXCEPT !.pc = "chat_send"]
    /\ UNCHANGED <<chat_rooms, heap, client_addresses, minted, tcp, started, pre,
                   is_server_running, issued, torn,
                   tcp_server, server_start, client>>

\* a loop that sends to the sender too
LoopTurnAll(u, tokens, text, skip_sender, next, fails) ==
    IF Len(tokens) # u.it_used THEN Finish(u, "error")
    ELSE IF u.it_pos > Len(tokens)
         THEN IF next = "done" THEN Finish(u, "sent") ELSE [u EXCEPT !.pc = next]
    ELSE [SendTo(u, text, tokens[u.it_pos], fails)
              EXCEPT !.it_pos = u.it_pos + 1]

\* a loop that a failed send ends
LoopTurnAbort(u, tokens, text, skip_sender, next, fails) ==
    IF Len(tokens) # u.it_used THEN Finish(u, "error")
    ELSE IF u.it_pos > Len(tokens)
         THEN IF next = "done" THEN Finish(u, "sent") ELSE [u EXCEPT !.pc = next]
    ELSE LET m == tokens[u.it_pos]
         IN  IF skip_sender /\ m.token = u.token
             THEN [u EXCEPT !.it_pos = u.it_pos + 1]
             ELSE IF fails THEN Finish(SendTo(u, text, m, fails), "error")
             ELSE [SendTo(u, text, m, fails) EXCEPT !.it_pos = u.it_pos + 1]

\* one turn of a loop "for user_token, (...) in room.tokens.items()": it
\* raises when the dict has changed size, ends (to pc next) when the
\* entries are used up, and otherwise sends text to the entry at hand
\* unless skip_sender holds and the entry is the sender's
LoopTurn(u, tokens, text, skip_sender, next, fails) ==
    IF Len(tokens) # u.it_used THEN Finish(u, "error")
    ELSE IF u.it_pos > Len(tokens)
         THEN IF next = "done" THEN Finish(u, "sent") ELSE [u EXCEPT !.pc = next]
    ELSE LET m == tokens[u.it_pos]
         IN  IF skip_sender /\ m.token = u.token
             THEN [u EXCEPT !.it_pos = u.it_pos + 1]
             ELSE [SendTo(u, text, m, fails) EXCEPT !.it_pos = u.it_pos + 1]

\* the for statement makes the dict iterator at its first turn: the size
\* the dict has then is the size every later turn checks
Iter(u, tokens) == IF u.it_pos = 1 THEN [u EXCEPT !.it_used = Len(tokens)] ELSE u

\* whether the turn at hand is a call of sendto, which alone can fail
SendsNow(u, tokens, skip_sender) ==
    /\ Len(tokens) = u.it_used
    /\ u.it_pos <= Len(tokens)
    /\ ~(skip_sender /\ tokens[u.it_pos].token = u.token)

Outcomes(u, tokens, skip_sender) ==
    IF SendsNow(u, tokens, skip_sender) THEN BOOLEAN ELSE {FALSE}

\* lines 403-414: the room-closed notice to everyone but the host
HostQuitSend ==
    /\ udp.pc = "host_notify"
    /\ \E fails \in Outcomes(Iter(udp, heap[udp.room].tokens),
                            heap[udp.room].tokens, TRUE) :
           udp' = LoopTurn(Iter(udp, heap[udp.room].tokens),
                           heap[udp.room].tokens,
                           QuitMessage(udp.room_name), TRUE, "host_delete",
                           fails)
    /\ UNCHANGED <<chat_rooms, heap, client_addresses, minted, tcp, started, pre,
                   is_server_running, issued, torn,
                   tcp_server, server_start, client>>

\* line 417: del self.chat_rooms[room_name]
HostQuitDelete ==
    /\ udp.pc = "host_delete"
    /\ IF RoomsHas(chat_rooms, udp.room_name)
       THEN /\ chat_rooms' = RoomsDel(chat_rooms, udp.room_name)
            /\ udp' = [udp EXCEPT !.pc = "host_cleanup"]
            /\ torn' = torn \cup
                   LET room == heap[RoomsGet(chat_rooms, udp.room_name)]
                   IN  {[room_name |-> udp.room_name,
                         token |-> room.tokens[i].token,
                         host |-> room.tokens[i].token = room.host_token] :
                           i \in DOMAIN room.tokens}
       ELSE /\ chat_rooms' = chat_rooms
            /\ udp' = Finish(udp, "error")
            /\ torn' = torn
    /\ UNCHANGED <<heap, client_addresses, minted, tcp, started, pre,
                   is_server_running, issued,
                   tcp_server, server_start, client>>

\* lines 421-426: forget the addresses of the room's tokens
HostQuitCleanup ==
    /\ udp.pc = "host_cleanup"
    /\ client_addresses' =
           AddrDel(client_addresses,
                   {heap[udp.room].tokens[i].token :
                       i \in DOMAIN heap[udp.room].tokens})
    /\ udp' = Finish(udp, "closed")
    /\ UNCHANGED <<chat_rooms, heap, minted, tcp, started, pre,
                   is_server_running, issued, torn,
                   tcp_server, server_start, client>>

\* lines 428-437: remove the member and its address
MemberQuitRemove ==
    /\ udp.pc = "member_remove"
    /\ heap' = [heap EXCEPT ![udp.room] = remove_user(heap[udp.room], udp.token)]
    /\ client_addresses' = AddrDel(client_addresses, {udp.token})
    /\ udp' = [udp EXCEPT !.pc = "member_notify", !.it_pos = 1,
                          !.it_used = Len(heap'[udp.room].tokens)]
    /\ UNCHANGED <<chat_rooms, minted, tcp, started, pre,
                   is_server_running, issued, torn,
                   tcp_server, server_start, client>>

\* lines 439-446: the departure notice to everyone left in the room
MemberQuitSend ==
    /\ udp.pc = "member_notify"
    /\ \E fails \in Outcomes(Iter(udp, heap[udp.room].tokens),
                            heap[udp.room].tokens, FALSE) :
           udp' = LoopTurn(Iter(udp, heap[udp.room].tokens),
                           heap[udp.room].tokens,
                           LeaveMessage(udp.sender_user_name), FALSE, "done",
                           fails)
    /\ UNCHANGED <<chat_rooms, heap, client_addresses, minted, tcp, started, pre,
                   is_server_running, issued, torn,
                   tcp_server, server_start, client>>

\* lines 451-465: the chat line to everyone but the sender
ChatSend ==
    /\ udp.pc = "chat_send"
    /\ \E fails \in Outcomes(Iter(udp, heap[udp.room].tokens),
                            heap[udp.room].tokens, TRUE) :
           udp' = LoopTurn(Iter(udp, heap[udp.room].tokens),
                           heap[udp.room].tokens,
                           FormatedMessage(udp.sender_user_name, udp.message),
                           TRUE, "done", fails)
    /\ UNCHANGED <<chat_rooms, heap, client_addresses, minted, tcp, started, pre,
                   is_server_running, issued, torn,
                   tcp_server, server_start, client>>

\* _udp_server, line 339: back to recvfrom while the server is running,
\* out of the loop otherwise
UdpLoop ==
    /\ udp.pc = "done"
    /\ udp' = IF is_server_running THEN IdleUdp
              ELSE [IdleUdp EXCEPT !.pc = "stopped"]
    /\ heap' = Gc(heap, chat_rooms, tcp, udp')
    /\ pre' = NoPre
    /\ UNCHANGED <<chat_rooms, client_addresses, minted, tcp, started,
                   is_server_running, issued, torn,
                   tcp_server, server_start, client>>

\* _tcp_server, lines 115-119: accept() or the start of the thread raises,
\* and the accept loop takes the flag down and ends
AcceptFail ==
    /\ tcp_server = "accept"
    /\ is_server_running
    /\ is_server_running' = FALSE
    /\ tcp_server' = "stopped"
    /\ UNCHANGED <<chat_rooms, heap, client_addresses, minted, tcp, udp,
                   issued, torn, server_start, client>>

\* _tcp_server, lines 107-125: accept() returns a connection after the flag
\* was taken down; the handler thread is started, the loop test fails and
\* the accept loop closes its socket
TcpAcceptLast(h, req) ==
    LET d == DecodedRequests[req]
    IN  /\ tcp_server = "accept"
        /\ ~is_server_running
        /\ tcp[h].pc = "idle"
        /\ (~d.raised /\ d.state = 0 /\ d.operation \in {1, 2}) => MintsLeft > 0
        /\ tcp' = [tcp EXCEPT ![h] =
               [IdleTcp EXCEPT
                   !.pc = IF d.raised THEN "finally" ELSE "dispatch",
                   !.req = req, !.raised = d.raised,
                   !.room_name = d.room_name, !.operation = d.operation,
                   !.state = d.state, !.user_name = d.user_name,
                   !.udp_port = d.udp_port]]
        /\ tcp_server' = "stopped"
        /\ UNCHANGED <<chat_rooms, heap, client_addresses, minted, udp,
                       is_server_running, issued, torn, server_start, client>>

\* _tcp_server, lines 115-125: accept() raises after the flag was taken
\* down; the except clause prints nothing and the loop ends
AcceptFailLast ==
    /\ tcp_server = "accept"
    /\ ~is_server_running
    /\ tcp_server' = "stopped"
    /\ UNCHANGED <<chat_rooms, heap, client_addresses, minted, tcp, udp,
                   is_server_running, issued, torn, server_start, client>>

\* server_start, lines 89-92: Ctrl-C reaches the main thread in its sleep
\* loop, and the except clause takes the flag down
KeyboardInterrupt ==
    /\ server_start = "sleep"
    /\ is_server_running' = FALSE
    /\ UNCHANGED <<chat_rooms, heap, client_addresses, minted, tcp, udp,
                   started, pre, issued, torn, tcp_server, server_start,
                   client>>

\* server_start, lines 86-93: with the flag down the sleep loop ends, or the
\* except clause is through, and the main thread returns
MainReturn ==
    /\ server_start = "sleep"
    /\ ~is_server_running
    /\ server_start' = "returned"
    /\ UNCHANGED <<chat_rooms, heap, client_addresses, minted, tcp, udp,
                   started, pre, is_server_running, issued, torn, tcp_server,
                   client>>

(***************************************************************************)
(* ChatClient in a chat session (_start_udp_chat): the input loop of the   *)
(* main thread and the receive loop of its daemon thread, which share      *)
(* is_client_running without a lock.                                       *)
(*                                                                         *)
(* input:   test -> input -> test | quit_send -> quit_sent -> close        *)
(*          -> closed                                                      *)
(* receive: test -> recv -> test | stopped                                 *)
(* sent holds the datagrams handed to sendto, typed counts the lines the   *)
(* user has entered, told tells that the receive loop has seen the         *)
(* room-closed notice and taken the flag down.                             *)
(***************************************************************************)
\* how many lines the user types in one session
MaxLines == 2

\* "ホストが退出したため", the words the receive loop looks for (line 377)
ROOM_CLOSED_WORDS ==
    <<12507, 12473, 12488, 12364, 36864, 20986, 12375, 12383, 12383, 12417>>

\* sub in s, for two str
Contains(s, sub) ==
    \E i \in 1..(Len(s) - Len(sub) + 1) : SubSeq(s, i, i + Len(sub) - 1) = sub

\* s.strip() is empty
IsBlank(s) == \A i \in DOMAIN s : s[i] \in {9, 10, 11, 12, 13, 32}

\* what input() returns: a chat line, /quit, /QUIT, an empty and a blank line
Lines == {HI, QUIT, QUIT_UPPER, <<>>, <<32>>}

\* what recvfrom returns: a chat line of bob, the room-closed notice of
\* "lobby", and a byte that is no UTF-8
Arrivals ==
    {Utf8Encode(FormatedMessage(BOB, HI)), Utf8Encode(QuitMessage(LOBBY)),
     <<255>>}

\* _start_udp_chat, lines 289-304: the flag is up, the receive thread is
\* started, both loops are at their tests
ChatStarted ==
    [is_client_running |-> TRUE, input |-> "test", receive |-> "test",
     message |-> <<>>, sent |-> <<>>, typed |-> 0, told |-> FALSE,
     udp_socket |-> "open"]

server_vars ==
    <<chat_rooms, heap, client_addresses, minted, tcp, udp, started, pre,
      is_server_running, issued, torn, tcp_server, server_start>>

\* _send_udp_message of the session's room and token
SendUdp(c, message) ==
    [c EXCEPT !.sent = Append(c.sent, EncodeDatagram(LOBBY, Uuid(1), message))]

\* line 304: while self.is_client_running
InputTest ==
    /\ client.input = "test"
    /\ client' = [client EXCEPT !.input = IF client.is_client_running
                                          THEN "input" ELSE "close"]
    /\ UNCHANGED server_vars

\* lines 307-317: input() returns a line; a chat line is sent at once, a
\* /quit is on its way to _send_udp_message
InputLine(line) ==
    /\ client.input = "input"
    /\ client.typed < MaxLines
    /\ client' =
         LET c == [client EXCEPT !.typed = client.typed + 1, !.message = line]
         IN  IF Lower(line) = QUIT THEN [c EXCEPT !.input = "quit_send"]
             ELSE IF ~IsBlank(line)
                  THEN [SendUdp(c, line) EXCEPT !.input = "test"]
             ELSE [c EXCEPT !.input = "test"]
    /\ UNCHANGED server_vars

\* line 312: the /quit goes out
QuitSend ==
    /\ client.input = "quit_send"
    /\ client' = [SendUdp(client, client.message) EXCEPT !.input = "quit_sent"]
    /\ UNCHANGED server_vars

\* lines 313-314: the flag is taken down and the loop is left
QuitBreak ==
    /\ client.input = "quit_sent"
    /\ client' = [client EXCEPT !.is_client_running = FALSE, !.input = "close"]
    /\ UNCHANGED server_vars

\* lines 318-322: Ctrl-C while the main thread is inside the try of the
\* loop body, in input() or on its way through the /quit branch: a /quit
\* goes out, the flag is taken down and the loop is left
InputInterrupt ==
    /\ client.input \in {"input", "quit_send", "quit_sent"}
    /\ client' = [SendUdp(client, QUIT) EXCEPT !.is_client_running = FALSE,
                                                !.input = "close"]
    /\ UNCHANGED server_vars

\* lines 323-327: input() raises (the end of the input): the same
InputError ==
    /\ client.input = "input"
    /\ client' = [SendUdp(client, QUIT) EXCEPT !.is_client_running = FALSE,
                                                !.input = "close"]
    /\ UNCHANGED server_vars

\* lines 328-334: send_socket.close(), and udp_socket.close() in finally
InputClose ==
    /\ client.input = "close"
    /\ client' = [client EXCEPT !.input = "closed", !.udp_socket = "closed"]
    /\ UNCHANGED server_vars

\* line 363: while self.is_client_running
ReceiveTest ==
    /\ client.receive = "test"
    /\ client' = [client EXCEPT !.receive = IF client.is_client_running
                                            THEN "recv" ELSE "stopped"]
    /\ UNCHANGED server_vars

\* lines 366-381: a datagram arrives; the room-closed notice takes the flag
\* down and ends the loop; lines 385-387: bytes that do not decode end it
ReceiveDatagram(data) ==
    /\ client.receive = "recv"
    /\ client.udp_socket = "open"
    /\ client' =
         LET message == Utf8Decode(data)
         IN  IF ~message.ok THEN [client EXCEPT !.receive = "stopped"]
             ELSE IF Contains(message.str, ROOM_CLOSED_WORDS)
                  THEN [client EXCEPT !.is_client_running = FALSE,
                                      !.told = TRUE, !.receive = "stopped"]
             ELSE [client EXCEPT !.receive = "test"]
    /\ UNCHANGED server_vars

\* lines 382-384: recvfrom raises OSError on the closed socket
ReceiveClosed ==
    /\ client.receive = "recv"
    /\ client.udp_socket = "closed"
    /\ client' = [client EXCEPT !.receive = "stopped"]
    /\ UNCHANGED server_vars

(***************************************************************************)
(* Specifications.                                                         *)
(*                                                                         *)
(* Spec: sequential histories.  A connection is accepted and a datagram is *)
(* received only when no other handler is running, so every handler runs   *)
(* from its first step to its last without another thread's step between;  *)
(* the connections are served by one handler thread after the other, which *)
(* the model names FirstHandler each time.                                 *)
(*                                                                         *)
(* SpecConc: handler threads and the relay loop interleave step by step,   *)
(* on the frames ChatClient sends to create and join "lobby" and on /quit  *)
(* datagrams for it; MaxConcOps connections and datagrams are taken up.    *)
(***************************************************************************)
\* under Spec a handler starts alone, and the registry it finds is noted
Alone ==
    /\ pre' = [chat_rooms |-> chat_rooms, heap |-> heap,
               client_addresses |-> client_addresses]
    /\ UNCHANGED started

Init ==
    /\ chat_rooms = <<>>
    /\ heap = [r \in {} |-> 0]
    /\ client_addresses = <<>>
    /\ minted = 0
    /\ tcp = [h \in Handlers |-> IdleTcp]
    /\ udp = IdleUdp
    /\ started = 0
    /\ pre = NoPre
    /\ is_server_running = TRUE
    /\ tcp_server = "accept"
    /\ server_start = "sleep"
    /\ client = ChatStarted
    /\ issued = [token \in AllTokens |-> 0]
    /\ torn = {}

TcpStep(h) ==
    \/ TcpDispatch(h)
    \/ CreateCheck(h)
    \/ CreateInsert(h)
    \/ CreateAddr(h)
    \/ JoinCheck(h)
    \/ JoinLookup(h)
    \/ JoinAdd(h)
    \/ JoinAddr(h)
    \/ TcpRespond(h)
    \/ TcpClose(h)
    \/ TcpExit(h)

UdpStep ==
    \/ RelayLookup
    \/ HostQuitSend
    \/ HostQuitDelete
    \/ HostQuitCleanup
    \/ MemberQuitRemove
    \/ MemberQuitSend
    \/ ChatSend
    \/ UdpLoop

Next ==
    \/ \E req \in TcpInputs :
           Quiescent /\ Alone /\ TcpAccept(FirstHandler, req)
    \/ \E dg \in UdpInputs : Quiescent /\ Alone /\ UdpRecv(dg)
    \/ Quiescent /\ AcceptFail /\ UNCHANGED <<started, pre>>
    \/ \E h \in Handlers : TcpStep(h)
    \/ UdpStep

Spec == Init /\ [][Next]_vars

\* alice creates "lobby" and bob joins it, each any number of times
ConcReqs ==
    {ClientReq(c, IF c.name = ALICE THEN 1 ELSE 2, LOBBY) : c \in Clients}

\* a leave from any token, a chat line from the first
ConcDatagrams ==
    {Datagram(EncodeDatagram(LOBBY, token, QUIT), "ip1") : token \in AllTokens}
    \cup {Datagram(EncodeDatagram(LOBBY, Uuid(1), HI), "ip1")}

\* a new connection goes to the first handler thread that is free
FreeHandler(h) ==
    /\ tcp[h].pc = "idle"
    /\ h # FirstHandler => tcp[FirstHandler].pc # "idle"

Budget == started < MaxConcOps /\ started' = started + 1 /\ UNCHANGED pre

NextConc ==
    \/ \E h \in Handlers, req \in ConcReqs :
           FreeHandler(h) /\ Budget /\ TcpAccept(h, req)
    \/ \E dg \in ConcDatagrams : Budget /\ UdpRecv(dg)
    \/ Budget /\ AcceptFail
    \/ \E h \in Handlers : TcpStep(h)
    \/ UdpStep

SpecConc == Init /\ [][NextConc]_vars

\* the round trip: one connection at a time, each served to its end
CodecBudget == started < MaxCodecOps /\ started' = started + 1 /\ UNCHANGED pre

NextCodec ==
    \/ \E req \in CodecReqs :
           Quiescent /\ CodecBudget /\ TcpAccept(FirstHandler, req)
    \/ \E h \in Handlers : TcpStep(h)

SpecCodec == Init /\ [][NextCodec]_vars

\* the relay loop at work while a join comes in: connections and datagrams
\* are taken up one at a time, but for a join of "lobby" that a handler
\* thread serves while the relay loop has a datagram in hand
RaceReqs == {req \in ConcReqs : DecodedRequests[req].operation = 2}

NextRace ==
    \/ \E req \in ConcReqs :
           Quiescent /\ TcpAccept(FirstHandler, req) /\ UNCHANGED <<started, pre>>
    \/ \E dg \in ConcDatagrams :
           Quiescent /\ UdpRecv(dg) /\ UNCHANGED <<started, pre>>
    \/ \E req \in RaceReqs :
           /\ udp.pc \notin {"idle", "stopped"}
           /\ TcpAccept(FirstHandler, req)
           /\ UNCHANGED <<started, pre>>
    \/ \E h \in Handlers : TcpStep(h)
    \/ UdpStep

SpecRace == Init /\ [][NextRace]_vars

\* sequential histories on "lobby" in which short datagrams arrive as well
NextShort ==
    \/ \E req \in ConcReqs : Quiescent /\ Alone /\ TcpAccept(FirstHandler, req)
    \/ \E dg \in ConcDatagrams \cup ShortDatagrams :
           Quiescent /\ Alone /\ UdpRecv(dg)
    \/ \E h \in Handlers : TcpStep(h)
    \/ UdpStep

SpecShort == Init /\ [][NextShort]_vars

\* the server from start to stop.  The threads of the accept loop, of the
\* handlers and of the relay loop are daemon threads: they run as long as
\* the main thread has not returned from server_start (lines 69-76, 468-472)
Alive == server_start = "sleep"

\* the steps the threads take on their own, without a connection, a
\* datagram or a failure coming from outside
OwnStep == (\E h \in Handlers : TcpStep(h)) \/ UdpStep

NextStop ==
    \/ \E req \in ConcReqs :
           /\ Alive /\ Quiescent /\ TcpAccept(FirstHandler, req)
           /\ UNCHANGED <<started, pre>>
    \/ \E req \in ConcReqs :
           /\ Alive /\ Quiescent /\ TcpAcceptLast(FirstHandler, req)
           /\ UNCHANGED <<started, pre>>
    \/ \E dg \in ConcDatagrams :
           Alive /\ Quiescent /\ UdpRecv(dg) /\ UNCHANGED <<started, pre>>
    \/ Alive /\ Quiescent /\ AcceptFail /\ UNCHANGED <<started, pre>>
    \/ Alive /\ Quiescent /\ AcceptFailLast /\ UNCHANGED <<started, pre>>
    \/ \E h \in Handlers :
           \/ Alive /\ TcpDispatch(h)
           \/ Alive /\ CreateCheck(h)
           \/ Alive /\ CreateInsert(h)
           \/ Alive /\ CreateAddr(h)
           \/ Alive /\ JoinCheck(h)
           \/ Alive /\ JoinLookup(h)
           \/ Alive /\ JoinAdd(h)
           \/ Alive /\ JoinAddr(h)
           \/ Alive /\ TcpRespond(h)
           \/ Alive /\ TcpClose(h)
           \/ Alive /\ TcpExit(h)
    \/ Alive /\ RelayLookup
    \/ Alive /\ HostQuitSend
    \/ Alive /\ HostQuitDelete
    \/ Alive /\ HostQuitCleanup
    \/ Alive /\ MemberQuitRemove
    \/ Alive /\ MemberQuitSend
    \/ Alive /\ ChatSend
    \/ Alive /\ UdpLoop
    \/ KeyboardInterrupt
    \/ MainReturn

SpecStop ==
    /\ Init
    /\ [][NextStop]_vars
    /\ WF_vars(Alive /\ OwnStep)
    /\ WF_vars(MainReturn)

\* one chat session of ChatClient, the server left aside
NextClient ==
    \/ InputTest
    \/ \E line \in Lines : InputLine(line)
    \/ QuitSend
    \/ QuitBreak
    \/ InputInterrupt
    \/ InputError
    \/ InputClose
    \/ ReceiveTest
    \/ \E data \in Arrivals : ReceiveDatagram(data)
    \/ ReceiveClosed

SpecClient == Init /\ [][NextClient]_vars

(***************************************************************************)
(* What the claims speak of.                                               *)
(***************************************************************************)
\* the datagrams of the model with the fields their sender put in them
DatagramFields ==
    {[data |-> EncodeDatagram(room_name, token, message),
      room_name |-> room_name, token |-> token, message |-> message] :
        room_name \in RoomNames, token \in AllTokens, message \in Messages}

\* the fields of the datagram the relay loop has in hand
InHand == CHOOSE f \in DatagramFields : f.data = udp.data

\* the room a name stood for when the handler at work began
PreRoom(room_name) == pre.heap[RoomsGet(pre.chat_rooms, room_name)]

\* the registry is as it was when the handler at work began
RegistryUnchanged == chat_rooms = pre.chat_rooms /\ heap = pre.heap

\* the datagram in hand names a room that was active and carries a token
\* that was a member of it
FromMember(f) ==
    /\ RoomsHas(pre.chat_rooms, f.room_name)
    /\ TokensHas(PreRoom(f.room_name).tokens, f.token)

\* ... and it came from the IP recorded for that token
ValidDatagram(f) ==
    /\ FromMember(f)
    /\ TokensGet(PreRoom(f.room_name).tokens, f.token).ip = udp.client_address[1]

\* ... and it came from another IP
SpoofedDatagram(f) ==
    /\ FromMember(f)
    /\ TokensGet(PreRoom(f.room_name).tokens, f.token).ip # udp.client_address[1]

\* the leave command in the letter cases the model sends
LeaveTexts == {QUIT, QUIT_UPPER}

IsLeave(f) == f.message \in LeaveTexts

\* the relay loop has ended its work on a datagram of the model
RelayDone == udp.pc = "done" /\ \E f \in DatagramFields : f.data = udp.data

\* members without the one holding token
Others(members, token) == SelectSeq(members, LAMBDA m : m.token # token)

\* one send of text to each of members, in their order
OneEach(members, text) ==
    [i \in DOMAIN members |->
        [data |-> Utf8Encode(text),
         addr |-> <<members[i].ip, members[i].port>>]]

(***************************************************************************)
(* C1.  A datagram that names an active room and carries a member's token  *)
(* but comes from another IP than the one recorded for the token is        *)
(* dropped: nothing is sent, and the room table and the memberships stay   *)
(* as they were.  (The code prints a message and goes on, so this fails.)  *)
(***************************************************************************)
C1_SpoofedDropped ==
    (RelayDone /\ SpoofedDatagram(InHand)) =>
        (udp.sent = <<>> /\ RegistryUnchanged)

(***************************************************************************)
(* C3.  In a sequential history a create of a name that is active answers  *)
(* with the room-exists error and leaves the table, the room's host token  *)
(* and its members as they were; and a join of a name that is active (it   *)
(* was created and not torn down since) is not answered with the           *)
(* room-not-found error.                                                   *)
(***************************************************************************)
\* handler h has closed a connection whose request went to operation op
Served(h, op) ==
    /\ tcp[h].pc = "closed"
    /\ ~tcp[h].raised /\ tcp[h].state = 0 /\ tcp[h].operation = op

Answer(h, response_data) ==
    tcp[h].out = <<EncodeResponse(tcp[h].room_name, tcp[h].operation,
                                  response_data)>>

C3_CreateExistsJoinFound ==
    \A h \in Handlers :
        /\ (Served(h, 1) /\ RoomsHas(pre.chat_rooms, tcp[h].room_name)) =>
               (Answer(h, ErrorResponse(MSG_ROOM_EXISTS)) /\ RegistryUnchanged)
        /\ (Served(h, 2) /\ RoomsHas(pre.chat_rooms, tcp[h].room_name)) =>
               ~Answer(h, ErrorResponse(MSG_ROOM_NOT_FOUND))

\* a second create of an active name has been answered
C3_Witness ==
    \E h \in Handlers :
        /\ Served(h, 1) /\ RoomsHas(pre.chat_rooms, tcp[h].room_name)
        /\ Len(PreRoom(tcp[h].room_name).tokens) = 2

(***************************************************************************)
(* C4.  When the relay loop has processed a /quit (in any letter case)     *)
(* that the host of a room validly sent, every other member the room had   *)
(* at that moment has been sent the room-closed notice exactly once, the   *)
(* host none, and the room is no longer in the table.                      *)
(***************************************************************************)
HostLeave(f) ==
    /\ ValidDatagram(f) /\ IsLeave(f)
    /\ PreRoom(f.room_name).host_token = f.token

MemberLeave(f) ==
    /\ ValidDatagram(f) /\ IsLeave(f)
    /\ PreRoom(f.room_name).host_token # f.token

ChatLine(f) == ValidDatagram(f) /\ ~IsLeave(f)

FrameL(req) == req.header[1]
FrameOp(req) == req.header[2]
FrameState(req) == req.header[3]
FrameP(req) == FromBytesBig(SubSeq(req.header, 4, 32))

\* the peer delivered the whole header and the whole body
CompleteFrame(req) ==
    /\ Len(req.header) = 32
    /\ Len(req.body) = FrameL(req) + FrameP(req)

FrameName(req) == Utf8Decode(SubSeq(req.body, 1, FrameL(req)))
FramePayload(req) ==
    Utf8Decode(SubSeq(req.body, FrameL(req) + 1, FrameL(req) + FrameP(req)))

\* the four ways a frame fails to decode
FrameError(req) ==
    \/ Len(req.header) < 32
    \/ Len(req.body) < FrameL(req) + FrameP(req)
    \/ ~FrameName(req).ok
    \/ ~FramePayload(req).ok
    \/ FrameP(req) > 0 /\ JsonLoads(FramePayload(req).str).kind = "error"

\* handler h has closed its connection
Closed(h) == tcp[h].pc = "closed"

\* handler h wrote one frame, and its state byte is state
Wrote(h, state) == Len(tcp[h].out) = 1 /\ tcp[h].out[1][3] = state

(***************************************************************************)
(* C7.  On a connection on which the peer delivered a complete frame,      *)
(* whatever its operation code and state byte, the handler has written     *)
(* exactly one response frame when it closes the connection.  (The code    *)
(* answers only a frame whose state byte is 0 and whose room name is       *)
(* UTF-8, so this fails.)                                                  *)
(***************************************************************************)
C7_OneResponse ==
    \A h \in Handlers :
        (Closed(h) /\ CompleteFrame(tcp[h].req)) => Len(tcp[h].out) = 1

(***************************************************************************)
(* C8.  A request that fails to decode (short header, short body, room     *)
(* name or payload not UTF-8, payload not JSON when P > 0) is answered     *)
(* with one error frame, state byte 1: the handler does not close without  *)
(* a response and does not answer with a success frame.  (The code closes  *)
(* without a response on a short header or a bad room name and goes on     *)
(* to the operation on a bad payload, so this fails.)                      *)
(***************************************************************************)
C8_DecodeFailureAnswered ==
    \A h \in Handlers :
        (Closed(h) /\ FrameError(tcp[h].req)) => Wrote(h, 1)

(***************************************************************************)
(* C9.  For a request frame with state byte 0 that decodes, the response's *)
(* state byte is 2 exactly when the operation succeeded (create of an      *)
(* inactive name, join of an active name, list) and 1 otherwise (create of *)
(* an active name, join of an inactive name, an operation code other than  *)
(* 1, 2, 3); a state-2 response to a create or a join carries a token that *)
(* is a member of the named room with the connection's IP and the          *)
(* request's udp_port; a state-1 response carries no token.                *)
(***************************************************************************)
WellFormed(req) ==
    /\ CompleteFrame(req) /\ ~FrameError(req)
    /\ FrameState(req) = 0

Succeeds(req) ==
    LET active == RoomsHas(pre.chat_rooms, FrameName(req).str)
    IN  \/ FrameOp(req) = 1 /\ ~active
        \/ FrameOp(req) = 2 /\ active
        \/ FrameOp(req) = 3

UserNames == {c.name : c \in Clients} \cup {<<>>}

SuccessTexts(room_name) ==
    {MSG_ROOM_PREFIX \o room_name \o MSG_CREATED_SUFFIX,
     MSG_ROOM_PREFIX \o room_name \o MSG_JOINED_SUFFIX}

ErrorTexts == {MSG_ROOM_EXISTS, MSG_ROOM_NOT_FOUND, MSG_BAD_OPERATION}

\* the one frame handler h wrote is a success response that carries token
Returned(h, token) ==
    /\ Len(tcp[h].out) = 1
    /\ \E user_name \in UserNames :
       \E message \in SuccessTexts(FrameName(tcp[h].req).str) :
           tcp[h].out[1] = EncodeResponse(FrameName(tcp[h].req).str,
                               FrameOp(tcp[h].req),
                               SuccessResponse(token, user_name, message))

\* the one frame handler h wrote is an error response, which has no token
Refused(h) ==
    /\ Len(tcp[h].out) = 1
    /\ \E message \in ErrorTexts :
           /\ ~DictHas(ErrorResponse(message), "token")
           /\ tcp[h].out[1] = EncodeResponse(FrameName(tcp[h].req).str,
                                  FrameOp(tcp[h].req), ErrorResponse(message))

\* token is a member of the room the request names, with the connection's
\* IP and the udp_port of the request's payload
Recorded(req, token) ==
    LET room_name == FrameName(req).str
        payload == JsonLoads(FramePayload(req).str)
    IN  /\ RoomsHas(chat_rooms, room_name)
        /\ TokensHas(heap[RoomsGet(chat_rooms, room_name)].tokens, token)
        /\ LET m == TokensGet(heap[RoomsGet(chat_rooms, room_name)].tokens,
                              token)
           IN  /\ m.ip = req.ip
               /\ (payload.kind = "dict" /\ DictHas(payload.val, "udp_port"))
                      => m.port = DictGet(payload.val, "udp_port", JInt(0)).v

C9_StateByteAndToken ==
    \A h \in Handlers :
        (Closed(h) /\ WellFormed(tcp[h].req)) =>
            /\ Succeeds(tcp[h].req) => Wrote(h, 2)
            /\ ~Succeeds(tcp[h].req) => (Wrote(h, 1) /\ Refused(h))
            /\ (Wrote(h, 2) /\ FrameOp(tcp[h].req) \in {1, 2}) =>
                   \E token \in AllTokens :
                       Recorded(tcp[h].req, token) /\ Returned(h, token)

\* a join with a payload has been answered with a success frame
C9_Witness ==
    \E h \in Handlers :
        /\ Closed(h) /\ WellFormed(tcp[h].req)
        /\ FrameOp(tcp[h].req) = 2 /\ FrameP(tcp[h].req) > 0
        /\ Wrote(h, 2)

(***************************************************************************)
(* C2.  When two handlers run a create of the same name at once and no     *)
(* other operation runs, one of them is answered with a success response   *)
(* and a token, the other with the room-exists error, and the room in the  *)
(* table has the host token of the success response.  (The test of the     *)
(* name and the insert are not atomic, so this fails.)                     *)
(***************************************************************************)
C2_OneCreateWins ==
    \A h, g \in Handlers :
        (/\ h # g /\ started = 2
         /\ Closed(h) /\ FrameOp(tcp[h].req) = 1
         /\ Closed(g) /\ FrameOp(tcp[g].req) = 1
         /\ FrameName(tcp[h].req) = FrameName(tcp[g].req)) =>
            \E winner \in {h, g}, token \in AllTokens :
                LET room_name == FrameName(tcp[winner].req).str
                IN  /\ Returned(winner, token)
                    /\ \A loser \in {h, g} \ {winner} :
                           Answer(loser, ErrorResponse(MSG_ROOM_EXISTS))
                    /\ RoomsHas(chat_rooms, room_name)
                    /\ heap[RoomsGet(chat_rooms, room_name)].host_token = token

(***************************************************************************)
(* C10.  When a join runs at once with the relay loop's teardown of the    *)
(* same room, the join is answered (with a success token or with the       *)
(* room-not-found error), and when the teardown has ended, a joiner who    *)
(* holds a success token for the room that was torn down is among the      *)
(* members who were sent the room-closed notice: every member of that room *)
(* but the host was sent it once.  (The join can add its member to the     *)
(* room after the notices went out, and can fail on the lookup with no     *)
(* answer at all, so this fails.)                                          *)
(***************************************************************************)
TornDown == udp.pc = "done" /\ udp.outcome = "closed"

C10_JoinVsTeardown ==
    \A h \in Handlers :
        (Closed(h) /\ FrameOp(tcp[h].req) = 2) =>
            /\ Len(tcp[h].out) = 1
            /\ (/\ TornDown
                /\ \E token \in AllTokens :
                       /\ Returned(h, token)
                       /\ TokensHas(heap[udp.room].tokens, token)) =>
                   udp.sent = OneEach(Others(heap[udp.room].tokens,
                                             heap[udp.room].host_token),
                                      QuitMessage(udp.room_name))

(***************************************************************************)
(* C11.  A datagram that names a room that is not active, or whose token   *)
(* is not a member of the room it names (never issued, issued for another  *)
(* room, or of a member that has left), is dropped: nothing is sent, the   *)
(* room table, the memberships and the address table stay as they were,    *)
(* and the relay loop goes back to receive the next datagram.              *)
(***************************************************************************)
UnknownSender(f) == ~FromMember(f)

Dropped ==
    /\ udp.sent = <<>>
    /\ RegistryUnchanged
    /\ client_addresses = pre.client_addresses

\* the relay loop is back at recvfrom with nothing in hand
Receiving(u) == u = IdleUdp

C11_UnknownDropped ==
    /\ []((RelayDone /\ UnknownSender(InHand)) => Dropped)
    /\ [][(RelayDone /\ UnknownSender(InHand) /\ is_server_running)
              => Receiving(udp')]_udp

\* a token of "den" has come in a datagram for "lobby", and was dropped
C11_Witness ==
    /\ RelayDone /\ UnknownSender(InHand)
    /\ RoomsHas(pre.chat_rooms, InHand.room_name)
    /\ \E room_name \in RoomNames \ {InHand.room_name} :
           /\ RoomsHas(pre.chat_rooms, room_name)
           /\ TokensHas(PreRoom(room_name).tokens, InHand.token)

(***************************************************************************)
(* C12.  In every reachable state every room in the room table has its     *)
(* host token as a key of its own membership, so no room in the table has  *)
(* an empty membership; and no step takes the host token out of the        *)
(* membership of a room object: the host's membership ends only with the   *)
(* teardown, which removes the room from the table.                        *)
(***************************************************************************)
ActiveRooms == {chat_rooms[i].room : i \in DOMAIN chat_rooms}

HostIsMember(room) == TokensHas(room.tokens, room.host_token)

C12_HostInMembership ==
    /\ [](\A ref \in ActiveRooms :
              HostIsMember(heap[ref]) /\ heap[ref].tokens # <<>>)
    /\ [][\A ref \in DOMAIN heap \cap DOMAIN heap' :
              HostIsMember(heap[ref]) => HostIsMember(heap'[ref])]_heap

\* a member has left and the room is still in the table, with its host only
C12_Witness ==
    /\ udp.pc = "done" /\ udp.outcome = "sent" /\ udp.message = QUIT
    /\ udp.room \in ActiveRooms
    /\ Len(heap[udp.room].tokens) = 1

(***************************************************************************)
(* C13.  The tokens that successful creates and joins return are pairwise  *)
(* distinct: no token is carried by two success responses.  And in every   *)
(* reachable state a token is a key of the membership of at most one room  *)
(* in the table, where it has exactly one (name, IP, port) record.         *)
(***************************************************************************)
RoomsOf(token) ==
    {ref \in ActiveRooms : TokensHas(heap[ref].tokens, token)}

RecordsOf(room, token) ==
    {i \in DOMAIN room.tokens : room.tokens[i].token = token}

C13_TokensDistinct ==
    \A token \in AllTokens :
        /\ issued[token] <= 1
        /\ Cardinality(RoomsOf(token)) <= 1
        /\ \A ref \in RoomsOf(token) :
               Cardinality(RecordsOf(heap[ref], token)) = 1

\* three tokens have been returned and two rooms are in the table
C13_Witness ==
    /\ \A token \in {Uuid(1), Uuid(2), Uuid(3)} :
           issued[token] = 1 /\ RoomsOf(token) # {}
    /\ Len(chat_rooms) = 2

(***************************************************************************)
(* C14.  After a room was torn down, a create of the same name succeeds    *)
(* and makes a new room with a new host token; no token of the room that   *)
(* was torn down (its host's or a member's) is a member of the new room;   *)
(* a datagram that carries such a token is dropped, and a /quit with the   *)
(* old host token leaves the new room in the table.                        *)
(***************************************************************************)
\* the tokens of the rooms of this name that were torn down
TornTokens(room_name) == {e.token : e \in {x \in torn : x.room_name = room_name}}

\* a create of a name that was torn down and is not active
Recreate(h) ==
    /\ Closed(h) /\ WellFormed(tcp[h].req) /\ FrameOp(tcp[h].req) = 1
    /\ TornTokens(FrameName(tcp[h].req).str) # {}
    /\ ~RoomsHas(pre.chat_rooms, FrameName(tcp[h].req).str)

\* the datagram in hand carries a token of a room that was torn down, for a
\* name under which the relay loop found a room that was not
OldToken(f) ==
    /\ f.token \in TornTokens(f.room_name)
    /\ RoomsHas(pre.chat_rooms, f.room_name)
    /\ PreRoom(f.room_name).host_token \notin TornTokens(f.room_name)

C14_RecreateFresh ==
    /\ \A h \in Handlers :
           Recreate(h) =>
               LET room_name == FrameName(tcp[h].req).str
               IN  /\ Wrote(h, 2)
                   /\ RoomsHas(chat_rooms, room_name)
                   /\ \E token \in AllTokens \ TornTokens(room_name) :
                          /\ Returned(h, token)
                          /\ heap[RoomsGet(chat_rooms, room_name)].host_token
                                 = token
    /\ \A e \in torn :
           RoomsHas(chat_rooms, e.room_name) =>
               ~TokensHas(heap[RoomsGet(chat_rooms, e.room_name)].tokens,
                          e.token)
    /\ (RelayDone /\ OldToken(InHand)) =>
           (Dropped /\ RoomsHas(chat_rooms, InHand.room_name))

\* a /quit with the host token of the old room has come for the new room
C14_Witness ==
    /\ RelayDone /\ OldToken(InHand) /\ IsLeave(InHand)
    /\ [room_name |-> InHand.room_name, token |-> InHand.token, host |-> TRUE]
           \in torn
    /\ udp.client_address[1] = "ip1"

(***************************************************************************)
(* C15.  A list request is answered with exactly the names of the rooms    *)
(* that are active when it is served, each once, in the order in which     *)
(* those rooms were created: a room that was torn down is not listed, and  *)
(* a name that was torn down and created again stands where its latest     *)
(* creation puts it.  Serving the request changes nothing in the registry. *)
(***************************************************************************)
\* tokens are handed out one after the other: the number of a token
MintNo(token) == CHOOSE k \in 1..MaxTokens : Uuid(k) = token

\* when the room behind an entry of the table was created: the number of
\* its host token, which the create drew
CreatedAt(hp, e) == MintNo(hp[e.room].host_token)

\* the names of the table cr, each once, oldest room first
ByCreation(cr, hp) ==
    LET entries == Range(cr)
        before(e) == {x \in entries : CreatedAt(hp, x) < CreatedAt(hp, e)}
    IN  [i \in 1..Cardinality(entries) |->
            (CHOOSE e \in entries : Cardinality(before(e)) = i - 1).name]

ListServed(h) ==
    Closed(h) /\ WellFormed(tcp[h].req) /\ FrameOp(tcp[h].req) = 3

AfterTeardown(f) ==
    /\ f.token \in TornTokens(f.room_name)
    /\ ~RoomsHas(pre.chat_rooms, f.room_name)

C16_TeardownIdempotent ==
    (RelayDone /\ AfterTeardown(InHand)) => Dropped

\* the host's /quit has come a second time, from the host's address
C16_Witness ==
    /\ RelayDone /\ AfterTeardown(InHand) /\ InHand.message = QUIT
    /\ [room_name |-> InHand.room_name, token |-> InHand.token, host |-> TRUE]
           \in torn
    /\ udp.client_address[1] = "ip1"
    /\ Cardinality(TornTokens(InHand.room_name)) = 2


(***************************************************************************)
(* The frame round trip.                                                   *)
(***************************************************************************)
\* the handler serves the frame the client wrote for profile f
Serves(h, f) == tcp[h].pc # "idle" /\ tcp[h].req = CodecFrames[f]

\* what the server read out of the request frame is what the client put in
SameRequest(t, f) ==
    /\ ~t.raised
    /\ t.operation = f.operation
    /\ t.room_name = f.room_name
    /\ t.user_name = f.user_name
    /\ t.udp_port = f.udp_port

\* what the client reads out of the response frame is what the server put in
SameResponse(t, f) ==
    LET r == DecodeResponse(t.out[1])
    IN  /\ ~r.raised
        /\ r.operation = f.operation
        /\ r.room_name = f.room_name
        /\ r.payload = t.response_data
        /\ r.success = (DictGet(t.response_data, "status", NONE)
                            = JStr(SUCCESS_TEXT))
        /\ r.token = DictGet(t.response_data, "token", NONE)
        /\ r.user_name = DictGet(t.response_data, "user_name", NONE)
        /\ r.message = DictGet(t.response_data, "message", NONE)

\* C17: for the operations 1..3, a room name of 0..255 UTF-8 bytes and any
\* display name and port, the server decodes the frame the client encoded
\* to the same operation, room name, display name and port, and the client
\* decodes the response frame the server built to the same operation, room
\* name and payload fields.
C17_FrameRoundTrip ==
    \A h \in Handlers, f \in CodecProfiles :
        Serves(h, f) =>
            /\ SameRequest(tcp[h], f)
            /\ tcp[h].out # <<>> => SameResponse(tcp[h], f)

\* a join of the room whose name fills 255 bytes with three-byte
\* characters, by a display name of two-, three- and four-byte characters,
\* is answered with a token, and the client has read the response
C17_Witness ==
    \E f \in CodecProfiles :
        /\ f.operation = 2
        /\ f.room_name = CodecNames[6]
        /\ f.user_name = CodecUsers[4]
        /\ Serves(FirstHandler, f)
        /\ tcp[FirstHandler].out # <<>>
        /\ DecodeResponse(tcp[FirstHandler].out[1]).success
        /\ DecodeResponse(tcp[FirstHandler].out[1]).token = JStr(Uuid(2))

(***************************************************************************)
(* C18.  A failure while one connection or one datagram is handled (a      *)
(* frame or datagram that does not decode, a token that is not known, a    *)
(* send that raises) stays with that connection or datagram: no step of a  *)
(* handler thread or of the relay loop changes is_server_running, the      *)
(* handler thread that failed closes its connection and ends, so that the  *)
(* accept loop takes the next connection, and the relay loop goes back to  *)
(* receive the next datagram.                                              *)
(***************************************************************************)
FailedTcp(t) == t.raised \/ t.send_failed
FailedUdp(u) == u.outcome = "error" \/ u.failed # {}

\* the accept loop can hand a connection to a handler thread
Accepting == ENABLED TcpAccept(FirstHandler, ListReq)

C18_FailuresIsolated ==
    /\ [][((\E h \in Handlers : tcp'[h] # tcp[h]) \/ udp' # udp)
              => is_server_running' = is_server_running]_vars
    /\ [](\A h \in Handlers :
             FailedTcp(tcp[h]) => tcp[h].pc \in {"finally", "closed"})
    /\ [][\A h \in Handlers :
              (FailedTcp(tcp[h]) /\ tcp[h].pc = "closed")
                  => (tcp[h].closed /\ tcp'[h] = IdleTcp)]_tcp
    /\ []((Quiescent /\ is_server_running) => Accepting)
    /\ [][(udp.pc = "done" /\ FailedUdp(udp) /\ is_server_running)
              => Receiving(udp')]_udp

\* the server runs, a room is active, and a handler has closed a connection
\* whose frame did not decode
C18_Witness ==
    /\ is_server_running
    /\ chat_rooms # <<>>
    /\ tcp[FirstHandler].pc = "closed" /\ tcp[FirstHandler].raised

(***************************************************************************)
(* C19.  Fan-out is best effort per recipient: in each of the three        *)
(* fan-outs (the room-closed notice, the departure notice, a chat line) a  *)
(* send that raises does not keep the relay loop from the sends to the     *)
(* recipients after it, and after a host's /quit the room is removed from  *)
(* the table all the same.                                                 *)
(***************************************************************************)
\* the text that goes out for datagram f
FanOutText(f) ==
    LET room == PreRoom(f.room_name)
        sender == TokensGet(room.tokens, f.token)
    IN  IF ~IsLeave(f) THEN FormatedMessage(sender.user_name, f.message)
        ELSE IF room.host_token = f.token THEN QuitMessage(f.room_name)
        ELSE LeaveMessage(sender.user_name)

SendRaised == udp.failed # {}

C19_FanOutBestEffort ==
    (RelayDone /\ ValidDatagram(InHand) /\ SendRaised) =>
        /\ udp.outcome # "error"
        /\ udp.sent = OneEach(Others(PreRoom(InHand.room_name).tokens,
                                     InHand.token),
                              FanOutText(InHand))
        /\ HostLeave(InHand) =>
               /\ ~RoomsHas(chat_rooms, InHand.room_name)
               /\ \A i \in DOMAIN PreRoom(InHand.room_name).tokens :
                      PreRoom(InHand.room_name).tokens[i].token
                          \notin DOMAIN client_addresses

\* the first of the two room-closed notices of a host's /quit raised, the
\* second did not, and the room is gone
C19_Witness ==
    /\ RelayDone /\ HostLeave(InHand)
    /\ udp.failed = {1}
    /\ Len(udp.sent) = 2
    /\ ~RoomsHas(chat_rooms, InHand.room_name)

(***************************************************************************)
(* C20.  The relay loop attempts every send of one datagram's fan-out      *)
(* before it takes up the next datagram: when a fan-out loop ends, every   *)
(* member the room had when the loop began, but the sender, has been sent  *)
(* to, in the room's order; the sends of a datagram are made while it is   *)
(* in hand and a datagram is taken in hand only when the one before is     *)
(* done with, so that the sends of two datagrams are never interleaved and *)
(* go out in the order the datagrams came in.  (A join that adds its       *)
(* member while the loop runs ends the loop with a RuntimeError before     *)
(* the members after that point are sent to, so this fails.)               *)
(***************************************************************************)
FanOutPcs == {"host_notify", "member_notify", "chat_send"}

\* the members the room had when the fan-out loop began (a join appends)
BeganWith(u) == SubSeq(heap[udp.room].tokens, 1, u.it_used)

AddrsOf(members) == [i \in DOMAIN members |-> <<members[i].ip, members[i].port>>]
AddrsSent(u) == [k \in DOMAIN u.sent |-> u.sent[k].addr]

\* the relay loop leaves a fan-out loop in this step
FanOutEnds == udp.pc \in FanOutPcs /\ udp'.pc \notin FanOutPcs

C20_FanOutBeforeNext ==
    /\ [][FanOutEnds =>
              AddrsSent(udp') = AddrsOf(Others(BeganWith(udp'), udp.token))]_udp
    /\ [][udp'.sent # udp.sent =>
              \/ /\ udp'.data = udp.data
                 /\ Len(udp'.sent) = Len(udp.sent) + 1
                 /\ SubSeq(udp'.sent, 1, Len(udp.sent)) = udp.sent
              \/ udp'.pc \in {"idle", "stopped"}]_udp
    /\ [][udp'.data # udp.data =>
              udp.pc = "idle" \/ udp'.pc \in {"idle", "stopped"}]_udp


(***************************************************************************)
(* C21.  Once is_server_running is False, the accept loop and the relay    *)
(* loop both come out of their "while self.is_server_running" and close    *)
(* their sockets (lines 125 and 370), also when no connection and no       *)
(* datagram arrives any more.  Checked under SpecStop, where the threads'  *)
(* own steps and the main thread's return are fair, and connections,       *)
(* datagrams and Ctrl-C are not.                                           *)
(***************************************************************************)
LoopsExited == tcp_server = "stopped" /\ udp.pc = "stopped"

C21_LoopsExit == (~is_server_running) ~> LoopsExited

(***************************************************************************)
(* C22.  A create or join request whose body is shorter than L + P bytes,  *)
(* or whose payload is not UTF-8 or not JSON, has no effect: when its      *)
(* handler closes the connection no room was created, no member was added  *)
(* and the handler minted no token.  (The code takes such a payload for    *)
(* an empty display name and port 0 and goes on to the operation, so this  *)
(* fails.)                                                                 *)
(***************************************************************************)
MalformedBody(req) ==
    /\ Len(req.header) = 32
    /\ FrameOp(req) \in {1, 2}
    /\ \/ Len(req.body) < FrameL(req) + FrameP(req)
       \/ ~FramePayload(req).ok
       \/ FrameP(req) > 0 /\ JsonLoads(FramePayload(req).str).kind = "error"

C22_MalformedNoEffect ==
    \A h \in Handlers :
        (Closed(h) /\ MalformedBody(tcp[h].req)) =>
            RegistryUnchanged /\ tcp[h].token = <<>>

(***************************************************************************)
(* C23.  A datagram of fewer than 2 + Lr + Lt bytes, Lr and Lt being its   *)
(* first two bytes, is dropped whatever its bytes are: when the relay loop *)
(* is done with it, it has sent nothing and the registry and the address   *)
(* table are as before.  (The code slices the datagram without looking at  *)
(* its length, so a token that ends the datagram is read whole and the     *)
(* datagram is relayed as an empty chat line; this fails.)                 *)
(***************************************************************************)
ShortDatagram(data) ==
    Len(data) < 2 \/ Len(data) < 2 + data[1] + data[2]

C23_ShortDropped ==
    (udp.pc = "done" /\ ShortDatagram(udp.data)) =>
        /\ udp.sent = <<>>
        /\ RegistryUnchanged
        /\ client_addresses = pre.client_addresses

(***************************************************************************)
(* C24.  A /quit of the host ends with the room removed from chat_rooms,   *)
(* also when a handler thread adds a member to the room while the          *)
(* room-closed notices go out: when the relay loop is done with the        *)
(* host's /quit, the room name is not active.  Checked under SpecRace,     *)
(* where a join is served while the relay loop has the datagram in hand.   *)
(* (The join changes the size of room.tokens, the for loop of line 407     *)
(* raises RuntimeError, and line 417 is never reached; this fails.)        *)
(***************************************************************************)
HostQuitInHand ==
    /\ udp.room # 0
    /\ Lower(udp.message) = QUIT
    /\ is_host(heap[udp.room], udp.token)

\* a room-closed notice has gone out to a member
Told ==
    \E i \in DOMAIN udp.sent :
        /\ i \notin udp.failed
        /\ udp.sent[i].data = Utf8Encode(QuitMessage(udp.room_name))

\* when the relay loop is done with a /quit of the host, the room is gone
C24_HostQuitRemoves ==
    (udp.pc = "done" /\ HostQuitInHand) => ~RoomsHas(chat_rooms, udp.room_name)

\* C24, the case it names: once a member was told that the room is closed,
\* the relay loop is not done with the datagram while the room is active
C24_ToldThenRemoved ==
    (udp.pc = "done" /\ Told) => ~RoomsHas(chat_rooms, udp.room_name)

(***************************************************************************)
(* C25.  On the client, once the receive loop has seen the room-closed     *)
(* notice and taken is_client_running down, the input loop sends no        *)
(* datagram any more, neither a chat line nor a /quit; and a session       *)
(* sends at most one /quit, however it ends.  (The input loop reads the    *)
(* flag only at the top of its loop: the line it is waiting for in         *)
(* input() is still sent, and so is the /quit of a Ctrl-C; this fails.)    *)
(***************************************************************************)
IsQuit(datagram) ==
    \E message \in {QUIT, QUIT_UPPER} :
        datagram = EncodeDatagram(LOBBY, Uuid(1), message)

QuitsSent == {i \in DOMAIN client.sent : IsQuit(client.sent[i])}

\* C25, its first half: no send once the notice was seen
C25_SilentOnceClosed == [][client.told => client'.sent = client.sent]_client

\* C25, its second half: at most one /quit in a session
C25_OneQuit == Cardinality(QuitsSent) <= 1

(***************************************************************************)
(* C26.  Whenever no handler thread and no relay is at work, the keys of   *)
(* client_addresses are exactly the tokens that are members of an active   *)
(* room, and each entry is the (ip, port) the room records for its token.  *)
(* Checked under SpecConc, with concurrent creates of "lobby" and joins    *)
(* concurrent with a teardown.  (In the races of C2 and C10 a token stays  *)
(* in client_addresses whose room is in no table, so this fails.)          *)
(***************************************************************************)
ActiveMembers ==
    UNION {Range(heap[chat_rooms[i].room].tokens) : i \in DOMAIN chat_rooms}

C26_AddressesMatchMembers ==
    Quiescent =>
        /\ DOMAIN client_addresses = {m.token : m \in ActiveMembers}
        /\ \A m \in ActiveMembers :
               client_addresses[m.token] = <<m.ip, m.port>>

=============================================================================
